---- MODULE Spec2Model ----
(***************************************************************************)
(* cpds: a dynamically typed document tree (Node), its JSON codec and its  *)
(* validator.  Node is modelled from node.cpp / node.hpp, the validator    *)
(* from validator.cpp, the codec from json.cpp.                            *)
(*                                                                         *)
(* Representation notes.                                                   *)
(*  - Int is a 64-bit two's complement integer.  TLC's integers are 32 bit *)
(*    wide, so an Int is kept as three limbs <<a, b, c>> that stand for    *)
(*    the unsigned value a*2^42 + b*2^21 + c (a has 22 bits, b and c 21).  *)
(*  - String is a sequence of bytes (0..255); std::string's ordering is    *)
(*    the lexicographic ordering of the bytes.                             *)
(*  - A Node is a record with its tag, its identifier and one field per    *)
(*    member of union Storage; the members that are not live hold a fixed  *)
(*    blank value.                                                         *)
(***************************************************************************)
EXTENDS Integers, Sequences, FiniteSets, TLC

VARIABLES self, other, s_id_, pc, steps, op, exc, ret, prev, validator, text,
          indent_, args, ids, json_import, objs, heap

vars == <<self, other, s_id_, pc, steps, op, exc, ret, prev, validator, text,
          indent_, args, ids, json_import, objs, heap>>

\* the arguments of the last call and the identifiers each thread was given
callVars == <<args, ids>>

\* the variables of the validator, of the Validator objects with the payloads
\* they own, and of the JSON codec
validVars == <<validator, objs, heap>>

codecVars == <<text, indent_, json_import>>

----------------------------------------------------------------------------
(* 64-bit integers as limbs *)

LimbLo == 2^21

LimbHi == 2^22

Zero64 == <<0, 0, 0>>

\* the limbs of a small integer n, -2^21 < n < 2^21
I64(n) == IF n >= 0 THEN <<0, 0, n>> ELSE <<LimbHi - 1, LimbLo - 1, LimbLo + n>>

\* lexicographic comparison of limbs: the unsigned order
ULess(x, y) ==
  \/ x[1] < y[1]
  \/ x[1] = y[1] /\ x[2] < y[2]
  \/ x[1] = y[1] /\ x[2] = y[2] /\ x[3] < y[3]

IsNeg64(x) == x[1] >= LimbLo

\* the signed order: the unsigned order with the sign bit flipped
SFlip(x) == <<(x[1] + LimbLo) % LimbHi, x[2], x[3]>>

SLess(x, y) == ULess(SFlip(x), SFlip(y))

SLeq(x, y) == ~SLess(y, x)

\* x + y modulo 2^64
Add64(x, y) ==
  LET c == x[3] + y[3]
      b == x[2] + y[2] + (c \div LimbLo)
      a == x[1] + y[1] + (b \div LimbLo)
  IN <<a % LimbHi, b % LimbLo, c % LimbLo>>

\* two's complement negation: 2^64 - x modulo 2^64
Neg64(x) ==
  Add64(<<LimbHi - 1 - x[1], LimbLo - 1 - x[2], LimbLo - 1 - x[3]>>, <<0, 0, 1>>)

\* the magnitude of the signed reading of x, as an unsigned value
Mag64(x) == IF IsNeg64(x) THEN Neg64(x) ELSE x

IsOdd64(x) == x[3] % 2 = 1

\* x shifted right by one bit
Shr64(x) ==
  <<x[1] \div 2,
    (x[2] \div 2) + (x[1] % 2) * (LimbLo \div 2),
    (x[3] \div 2) + (x[2] % 2) * (LimbLo \div 2)>>

\* x shifted left by one bit, modulo 2^64
Shl64(x) == Add64(x, x)

\* x shifted left by n bits, modulo 2^64; zero stays zero
RECURSIVE ScaleUp(_, _)
ScaleUp(x, n) ==
  IF n <= 0 \/ x = Zero64 THEN x ELSE ScaleUp(Shl64(x), n - 1)

\* x * 10 modulo 2^64
Mul10(x) == Add64(ScaleUp(x, 3), Shl64(x))

\* the unsigned x divided by a small d (d <= 16): quotient and remainder
DivMod64(x, d) ==
  LET t == (x[1] % d) * LimbLo + x[2]
      u == (t % d) * LimbLo + x[3]
  IN [quot |-> <<x[1] \div d, t \div d, u \div d>>, rem |-> u % d]

\* 2^53, 2^63 - 1 and -2^63
Pow53 == <<2^11, 0, 0>>

IntMax64 == <<LimbLo - 1, LimbLo - 1, LimbLo - 1>>

IntMin64 == <<LimbLo, 0, 0>>

----------------------------------------------------------------------------
(* strings *)

RECURSIVE StrLess(_, _)
StrLess(a, b) ==
  IF b = <<>> THEN FALSE
  ELSE IF a = <<>> THEN TRUE
  ELSE IF a[1] # b[1] THEN a[1] < b[1]
  ELSE StrLess(Tail(a), Tail(b))

----------------------------------------------------------------------------
(* Node *)

NodeType == {"Null", "Boolean", "Integer", "FloatingPoint", "String",
             "Sequence", "Map"}

\* a Float is kept as sign, mantissa (below 2^53, as limbs) and binary exponent
FZero == [neg |-> FALSE, mant |-> Zero64, exp |-> 0]

\* the canonical form of a Float: an odd mantissa, or zero with exponent 0
RECURSIVE FNormal(_, _, _)
FNormal(neg, mant, exp) ==
  IF mant = Zero64 THEN [neg |-> neg, mant |-> Zero64, exp |-> 0]
  ELSE IF IsOdd64(mant) THEN [neg |-> neg, mant |-> mant, exp |-> exp]
  ELSE FNormal(neg, Shr64(mant), exp + 1)

\* the magnitude q * 2^exp cut down to 53 bits; guard is the last bit shifted
\* out and sticky tells whether a one was shifted out before it
RECURSIVE FShrink(_, _, _, _)
FShrink(q, exp, guard, sticky) ==
  IF ~ULess(q, Pow53)
  THEN FShrink(Shr64(q), exp + 1, IsOdd64(q), sticky \/ guard)
  ELSE [q |-> q, exp |-> exp, guard |-> guard, sticky |-> sticky]

\* static_cast<Float>(Int): IEEE754 conversion, round to nearest, ties to even
FloatOfInt(val) ==
  LET s == FShrink(Mag64(val), 0, FALSE, FALSE)
      up == s.guard /\ (s.sticky \/ IsOdd64(s.q))
      q == IF up THEN Add64(s.q, <<0, 0, 1>>) ELSE s.q
  IN FNormal(IsNeg64(val), q, s.exp)

\* the order of two Floats (no NaN, no infinity): magnitudes are compared at
\* the smaller of the two exponents
FMagLess(a, b) ==
  LET e == IF a.exp < b.exp THEN a.exp ELSE b.exp
  IN ULess(ScaleUp(a.mant, a.exp - e), ScaleUp(b.mant, b.exp - e))

FLess(a, b) ==
  IF a.neg /\ ~b.neg THEN ~(a.mant = Zero64 /\ b.mant = Zero64)
  ELSE IF ~a.neg /\ b.neg THEN FALSE
  ELSE IF a.neg THEN FMagLess(b, a)
  ELSE FMagLess(a, b)

Storage == [bool_ |-> FALSE, int_ |-> Zero64, float_ |-> FZero,
            str_ |-> <<>>, seq_ |-> <<>>, map_ |-> <<>>]

MkNode(type, id, storage) ==
  [type_ |-> type, id_ |-> id,
   bool_ |-> storage.bool_, int_ |-> storage.int_, float_ |-> storage.float_,
   str_ |-> storage.str_, seq_ |-> storage.seq_, map_ |-> storage.map_]

NodeNull(id) == MkNode("Null", id, Storage)

NodeBool(value, id) == MkNode("Boolean", id, [Storage EXCEPT !.bool_ = value])

NodeInt(value, id) == MkNode("Integer", id, [Storage EXCEPT !.int_ = value])

\* Node(unsigned int): the value is below 2^32
NodeUnsignedInt(value, id) == NodeInt(value, id)

\* Node(unsigned long int): the value is stored as it is (uint64_t is unsigned
\* long where long has 64 bits); a value from 2^63 on reads as a negative Int
NodeUnsigned(value, id) == NodeInt(value, id)

NodeFloat(value, id) ==
  MkNode("FloatingPoint", id, [Storage EXCEPT !.float_ = value])

NodeString(value, id) == MkNode("String", id, [Storage EXCEPT !.str_ = value])

NodeSequence(value, id) ==
  MkNode("Sequence", id, [Storage EXCEPT !.seq_ = value])

MapEntry(key, node) == [first |-> key, second |-> node]

\* MapCompare on two entries, and on an entry and a key
MapCompare(a, b) == StrLess(a.first, b.first)

MapCompareKey(a, key) == StrLess(a.first, key)

MapCompareKeyEntry(key, b) == StrLess(key, b.first)

----------------------------------------------------------------------------
(* exceptions: the class thrown and the node identifier it carries *)

\* std::numeric_limits<uint32_t>::max(), read as a 32-bit two's complement value
NoNodeId == 0 - 1

NoExc == [kind |-> "none", node_id_ |-> NoNodeId]

\* the members of a JsonImport that outlive a call of load: strm_ is nullptr
\* or the address of the stream of the last call
JsonImport == [strm_ |-> "nullptr", line_ |-> 0, pos_ |-> 0, parseinfo_ |-> {}]

Exception == [kind |-> "Exception", node_id_ |-> NoNodeId]

TypeExceptionNoNode == [kind |-> "TypeException", node_id_ |-> NoNodeId]

TypeException(node) == [kind |-> "TypeException", node_id_ |-> node.id_]

KeyException(node) == [kind |-> "KeyException", node_id_ |-> node.id_]

ValidationException(node) == [kind |-> "ValidationException", node_id_ |-> node.id_]

IntRangeException(node) == [kind |-> "IntRangeException", node_id_ |-> node.id_]

FloatRangeException(node) == [kind |-> "FloatRangeException", node_id_ |-> node.id_]

ImportException == [kind |-> "ImportException", node_id_ |-> NoNodeId]

\* a conversion between a Float and its decimal text that rounds: the model
\* covers the conversions that are exact and marks every other one
NotModelled == [kind |-> "NotModelled", node_id_ |-> NoNodeId]

\* OverflowException is a TypeException that names no node
OverflowException == [kind |-> "OverflowException", node_id_ |-> NoNodeId]

\* Node::checkValue of an unsigned 64-bit value
checkValue(value) == IF ULess(IntMax64, value) THEN OverflowException ELSE NoExc

\* Node(unsigned long long int): the identifier is taken, the value is stored
\* and then checked
NodeUnsignedLongLong(value, id) ==
  [exc |-> checkValue(value), node |-> NodeInt(value, id)]

----------------------------------------------------------------------------
(* construction of a Map node *)

\* std::sort with MapCompare: the entries in ascending key order (the order of
\* entries with equal keys is unspecified; prepareMap then throws)
RECURSIVE SortInsert(_, _)
SortInsert(sorted, e) ==
  IF sorted = <<>> THEN <<e>>
  ELSE IF MapCompare(e, sorted[1]) THEN <<e>> \o sorted
  ELSE <<sorted[1]>> \o SortInsert(Tail(sorted), e)

\* faulty variant: the initialization data is taken in the order given
SortMap_Unsorted(map) == map

RECURSIVE SortMap(_)
SortMap(map) ==
  IF map = <<>> THEN <<>>
  ELSE SortInsert(SortMap(SubSeq(map, 1, Len(map) - 1)), map[Len(map)])

\* faulty variant: the sorted pairs are not compared
prepareMap_Unchecked(map) == [exc |-> NoExc, map |-> SortMap(map)]

\* prepareMap: sorts, then throws Exception if two neighbours have the same key
prepareMap(map) ==
  IF map = <<>> THEN [exc |-> NoExc, map |-> map]
  ELSE LET sorted == SortMap(map)
           dup == \E i \in 1..(Len(sorted) - 1) : sorted[i].first = sorted[i+1].first
       IN [exc |-> IF dup THEN Exception ELSE NoExc, map |-> sorted]

\* Node::Node(const Map&): the node, or the exception of prepareMap
NodeMap(value, id) ==
  LET p == prepareMap(value)
  IN [exc |-> p.exc,
      node |-> MkNode("Map", id, [Storage EXCEPT !.map_ = p.map])]

----------------------------------------------------------------------------
(* container access *)

\* std::lower_bound(m.begin(), m.end(), key, comp): binary search from index
\* first over count entries; the index of the first entry not less than key
RECURSIVE LowerBound(_, _, _, _)
LowerBound(m, key, first, count) ==
  IF count <= 0 THEN first
  ELSE LET step == count \div 2
           it == first + step
       IN IF MapCompareKey(m[it], key)
          THEN LowerBound(m, key, it + 1, count - (step + 1))
          ELSE LowerBound(m, key, first, step)

\* Node::find: the index of key's entry, or Len + 1 for end()
Find(m, key) ==
  LET iter == LowerBound(m, key, 1, Len(m))
  IN IF iter # Len(m) + 1 /\ ~MapCompareKeyEntry(key, m[iter])
     THEN iter ELSE Len(m) + 1

InsertAt(m, iter, e) ==
  SubSeq(m, 1, iter - 1) \o <<e>> \o SubSeq(m, iter, Len(m))

EraseAt(m, iter) == SubSeq(m, 1, iter - 1) \o SubSeq(m, iter + 1, Len(m))

\* faulty variant: the value of a key that is present is replaced by Null
Index_Replace(node, key, id) ==
  IF node.type_ # "Map"
  THEN [exc |-> TypeException(node), node |-> node, ret |-> NodeNull(NoNodeId),
        inserted |-> FALSE]
  ELSE LET m == node.map_
           iter == LowerBound(m, key, 1, Len(m))
       IN IF iter # Len(m) + 1 /\ ~MapCompareKeyEntry(key, m[iter])
          THEN [exc |-> NoExc,
                node |-> [node EXCEPT !.map_[iter].second = NodeNull(id)],
                ret |-> NodeNull(id), inserted |-> TRUE]
          ELSE [exc |-> NoExc,
                node |-> [node EXCEPT !.map_ = InsertAt(m, iter, MapEntry(key, NodeNull(id)))],
                ret |-> NodeNull(id), inserted |-> TRUE]

\* Node::operator[](const String&): find or insert a Null node made with
\* identifier id; inserted tells whether an identifier was consumed
Index(node, key, id) ==
  IF node.type_ # "Map"
  THEN [exc |-> TypeException(node), node |-> node, ret |-> NodeNull(NoNodeId),
        inserted |-> FALSE]
  ELSE LET m == node.map_
           iter == LowerBound(m, key, 1, Len(m))
       IN IF iter # Len(m) + 1 /\ ~MapCompareKeyEntry(key, m[iter])
          THEN [exc |-> NoExc, node |-> node, ret |-> m[iter].second,
                inserted |-> FALSE]
          ELSE [exc |-> NoExc,
                node |-> [node EXCEPT !.map_ = InsertAt(m, iter, MapEntry(key, NodeNull(id)))],
                ret |-> NodeNull(id), inserted |-> TRUE]

\* Node::erase: the number of entries removed
Erase(node, key) ==
  IF node.type_ # "Map"
  THEN [exc |-> TypeException(node), node |-> node, ret |-> 0]
  ELSE LET iter == Find(node.map_, key)
       IN IF iter = Len(node.map_) + 1
          THEN [exc |-> NoExc, node |-> node, ret |-> 0]
          ELSE [exc |-> NoExc, node |-> [node EXCEPT !.map_ = EraseAt(node.map_, iter)],
                ret |-> 1]

----------------------------------------------------------------------------
(* merge *)

RECURSIVE Merge(_, _)
RECURSIVE mergeSequenceLoop(_, _, _, _)
RECURSIVE mergeMapLoop(_, _, _, _)

\* faulty variant: the local iterator is not progressed
mergeMapAdvance_Stay(loc_map, loc_iter, other_entry) == loc_iter

\* the while loop of mergeMap: progress loc_iter until or past the other key
RECURSIVE mergeMapAdvance(_, _, _)
mergeMapAdvance(loc_map, loc_iter, other_entry) ==
  IF loc_iter # Len(loc_map) + 1 /\ MapCompare(loc_map[loc_iter], other_entry)
  THEN mergeMapAdvance(loc_map, loc_iter + 1, other_entry)
  ELSE loc_iter

\* the for loop of mergeMap from other_iter on; a throw of the recursive merge
\* leaves loc_map as it is at that moment
mergeMapLoop(loc_map, other_map, loc_iter, other_iter) ==
  IF other_iter = Len(other_map) + 1 THEN [exc |-> NoExc, map |-> loc_map]
  ELSE LET oe == other_map[other_iter]
           li == mergeMapAdvance(loc_map, loc_iter, oe)
       IN IF li # Len(loc_map) + 1 /\ ~MapCompare(oe, loc_map[li])
          THEN LET r == Merge(loc_map[li].second, oe.second)
                   merged == [loc_map EXCEPT ![li].second = r.node]
               IN IF r.exc.kind # "none"
                  THEN [exc |-> r.exc, map |-> merged]
                  ELSE mergeMapLoop(merged, other_map, li + 1, other_iter + 1)
          ELSE mergeMapLoop(InsertAt(loc_map, li, oe), other_map, li, other_iter + 1)

mergeMap(node, othr) ==
  LET r == mergeMapLoop(node.map_, othr.map_, 1, 1)
  IN [exc |-> r.exc, node |-> [node EXCEPT !.map_ = r.map]]

\* faulty variant: the common elements are left as they are
mergeSequenceLoop_Skip(loc_seq, other_seq, num_merges, i) ==
  [exc |-> NoExc, seq |-> loc_seq]

\* the for loop of mergeSequence from index i on (1-based)
mergeSequenceLoop(loc_seq, other_seq, num_merges, i) ==
  IF i > num_merges THEN [exc |-> NoExc, seq |-> loc_seq]
  ELSE LET r == Merge(loc_seq[i], other_seq[i])
           merged == [loc_seq EXCEPT ![i] = r.node]
       IN IF r.exc.kind # "none"
          THEN [exc |-> r.exc, seq |-> merged]
          ELSE mergeSequenceLoop(merged, other_seq, num_merges, i + 1)

Min(a, b) == IF a < b THEN a ELSE b

\* faulty variant: every child of the other node is appended
mergeSequence_AppendAll(node, othr) ==
  LET num_merges == Min(Len(node.seq_), Len(othr.seq_))
      r == mergeSequenceLoop(node.seq_, othr.seq_, num_merges, 1)
  IN IF r.exc.kind # "none"
     THEN [exc |-> r.exc, node |-> [node EXCEPT !.seq_ = r.seq]]
     ELSE [exc |-> NoExc, node |-> [node EXCEPT !.seq_ = r.seq \o othr.seq_]]

mergeSequence(node, othr) ==
  LET num_merges == Min(Len(node.seq_), Len(othr.seq_))
      r == mergeSequenceLoop(node.seq_, othr.seq_, num_merges, 1)
  IN IF r.exc.kind # "none"
     THEN [exc |-> r.exc, node |-> [node EXCEPT !.seq_ = r.seq]]
     ELSE [exc |-> NoExc,
           node |-> [node EXCEPT !.seq_ =
                       r.seq \o SubSeq(othr.seq_, num_merges + 1, Len(othr.seq_))]]

\* Node::merge: the node after the call and the exception thrown, if any
Merge(node, othr) ==
  IF node.type_ = "Sequence" /\ othr.type_ = "Sequence" THEN mergeSequence(node, othr)
  ELSE IF node.type_ = "Map" /\ othr.type_ = "Map" THEN mergeMap(node, othr)
  ELSE IF \/ node.type_ = "Sequence" \/ othr.type_ = "Sequence"
          \/ node.type_ = "Map" \/ othr.type_ = "Map"
  THEN [exc |-> TypeException(othr), node |-> node]
  ELSE [exc |-> NoExc, node |-> othr]

\* operator== of two Floats: the two zeros are equal
FloatEq(a, b) == a = b \/ (a.mant = Zero64 /\ b.mant = Zero64)

\* operator==: structural equality, identifiers are not compared
RECURSIVE NodeEq(_, _)
NodeEq(lhs, rhs) ==
  /\ lhs.type_ = rhs.type_
  /\ CASE lhs.type_ = "Null" -> TRUE
       [] lhs.type_ = "Boolean" -> lhs.bool_ = rhs.bool_
       [] lhs.type_ = "Integer" -> lhs.int_ = rhs.int_
       [] lhs.type_ = "FloatingPoint" -> FloatEq(lhs.float_, rhs.float_)
       [] lhs.type_ = "String" -> lhs.str_ = rhs.str_
       [] lhs.type_ = "Sequence" ->
            /\ Len(lhs.seq_) = Len(rhs.seq_)
            /\ \A i \in 1..Len(lhs.seq_) : NodeEq(lhs.seq_[i], rhs.seq_[i])
       [] lhs.type_ = "Map" ->
            /\ Len(lhs.map_) = Len(rhs.map_)
            /\ \A i \in 1..Len(lhs.map_) :
                 /\ lhs.map_[i].first = rhs.map_[i].first
                 /\ NodeEq(lhs.map_[i].second, rhs.map_[i].second)

----------------------------------------------------------------------------
(* typed access *)

k_max_float_int == Pow53

k_min_float_int == Neg64(k_max_float_int)

\* what an accessor returns: the value in the member of its type
Returned == Storage

boolValue(node) ==
  IF node.type_ = "Boolean"
  THEN [exc |-> NoExc, ret |-> [Returned EXCEPT !.bool_ = node.bool_]]
  ELSE [exc |-> TypeException(node), ret |-> Returned]

\* faulty variant: a Boolean is read as an Integer
intValue_Lenient(node) ==
  IF node.type_ \in {"Integer", "Boolean"}
  THEN [exc |-> NoExc, ret |-> [Returned EXCEPT !.int_ = node.int_]]
  ELSE [exc |-> TypeException(node), ret |-> Returned]

intValue(node) ==
  IF node.type_ = "Integer"
  THEN [exc |-> NoExc, ret |-> [Returned EXCEPT !.int_ = node.int_]]
  ELSE [exc |-> TypeException(node), ret |-> Returned]

\* faulty variant: the bounds of the representable range are excluded
floatValue_Exclusive(node) ==
  IF node.type_ = "FloatingPoint"
  THEN [exc |-> NoExc, ret |-> [Returned EXCEPT !.float_ = node.float_]]
  ELSE IF /\ node.type_ = "Integer"
          /\ SLess(k_min_float_int, node.int_)
          /\ SLess(node.int_, k_max_float_int)
  THEN [exc |-> NoExc, ret |-> [Returned EXCEPT !.float_ = FloatOfInt(node.int_)]]
  ELSE [exc |-> TypeException(node), ret |-> Returned]

floatValue(node) ==
  IF node.type_ = "FloatingPoint"
  THEN [exc |-> NoExc, ret |-> [Returned EXCEPT !.float_ = node.float_]]
  ELSE IF /\ node.type_ = "Integer"
          /\ SLeq(k_min_float_int, node.int_)
          /\ SLeq(node.int_, k_max_float_int)
  THEN [exc |-> NoExc, ret |-> [Returned EXCEPT !.float_ = FloatOfInt(node.int_)]]
  ELSE [exc |-> TypeException(node), ret |-> Returned]

stringValue(node) ==
  IF node.type_ # "String"
  THEN [exc |-> TypeException(node), ret |-> Returned]
  ELSE [exc |-> NoExc, ret |-> [Returned EXCEPT !.str_ = node.str_]]

\* the magnitude mant * 2^exp cut toward zero, as an unsigned 64-bit value;
\* ok is FALSE when it does not fit
RECURSIVE FMagnitude(_, _)
FMagnitude(mant, exp) ==
  IF exp = 0 \/ mant = Zero64 THEN [ok |-> TRUE, mag |-> mant]
  ELSE IF exp < 0 THEN FMagnitude(Shr64(mant), exp + 1)
  ELSE IF IsNeg64(mant) THEN [ok |-> FALSE, mag |-> mant]
  ELSE FMagnitude(Shl64(mant), exp - 1)

\* the implicit conversion of a Float to Int: the value cut toward zero; a
\* value outside the range of Int is undefined behaviour, for which the
\* conversion instructions give the smallest or the largest Int
IntOfFloat(f) ==
  LET m == FMagnitude(f.mant, f.exp)
  IN IF m.ok /\ ~IsNeg64(m.mag) THEN {IF f.neg THEN Neg64(m.mag) ELSE m.mag}
     ELSE IF m.ok /\ f.neg /\ m.mag = IntMin64 THEN {IntMin64}
     ELSE {IntMin64, IntMax64}

\* the lenient accessors of the earlier node.cpp; TypeException() names no node
asBool(node) ==
  CASE node.type_ = "Null" -> [exc |-> NoExc, ret |-> [Returned EXCEPT !.bool_ = FALSE]]
    [] node.type_ = "Boolean" ->
         [exc |-> NoExc, ret |-> [Returned EXCEPT !.bool_ = node.bool_]]
    [] node.type_ = "Integer" ->
         [exc |-> NoExc, ret |-> [Returned EXCEPT !.bool_ = (node.int_ # Zero64)]]
    [] node.type_ = "FloatingPoint" ->
         [exc |-> NoExc, ret |-> [Returned EXCEPT !.bool_ = (node.float_.mant # Zero64)]]
    [] OTHER -> [exc |-> TypeExceptionNoNode, ret |-> Returned]

\* the set of results asInt can give: one, unless the conversion is undefined
asInt(node) ==
  CASE node.type_ = "Null" -> {[exc |-> NoExc, ret |-> [Returned EXCEPT !.int_ = Zero64]]}
    [] node.type_ = "Boolean" ->
         {[exc |-> NoExc, ret |-> [Returned EXCEPT !.int_ = Zero64]]}
    [] node.type_ = "Integer" ->
         {[exc |-> NoExc, ret |-> [Returned EXCEPT !.int_ = node.int_]]}
    [] node.type_ = "FloatingPoint" ->
         {[exc |-> NoExc, ret |-> [Returned EXCEPT !.int_ = i]] :
            i \in IntOfFloat(node.float_)}
    [] OTHER -> {[exc |-> TypeExceptionNoNode, ret |-> Returned]}

asFloat(node) ==
  CASE node.type_ = "Null" -> [exc |-> NoExc, ret |-> [Returned EXCEPT !.float_ = FZero]]
    [] node.type_ = "Boolean" ->
         [exc |-> NoExc, ret |-> [Returned EXCEPT !.float_ = FZero]]
    [] node.type_ = "Integer" ->
         [exc |-> NoExc, ret |-> [Returned EXCEPT !.float_ = FloatOfInt(node.int_)]]
    [] node.type_ = "FloatingPoint" ->
         [exc |-> NoExc, ret |-> [Returned EXCEPT !.float_ = node.float_]]
    [] OTHER -> [exc |-> TypeExceptionNoNode, ret |-> Returned]

----------------------------------------------------------------------------
(* the program: Node self and Node other are each assigned a value built from
   a literal, then self is indexed, erased from and merged with other *)

MaxSteps == 2

KeyA == <<97>>

KeyB == <<98>>

KeyC == <<99>>

Keys == {KeyA, KeyB, KeyC}

One64 == I64(1)

Two64 == I64(2)

\* 1.5 = 3 * 2^-1
FOneHalf == [neg |-> FALSE, mant |-> I64(3), exp |-> 0 - 1]

ScalarLits == {"null", "true", "one", "two", "float", "string"}

\* a Node constructed from a scalar literal, taking identifier id
Scalar(lit, id) ==
  CASE lit = "null" -> NodeNull(id)
    [] lit = "true" -> NodeBool(TRUE, id)
    [] lit = "zero" -> NodeInt(Zero64, id)
    [] lit = "one" -> NodeInt(One64, id)
    [] lit = "two" -> NodeInt(Two64, id)
    [] lit = "five" -> NodeInt(I64(5), id)
    [] lit = "float" -> NodeFloat(FOneHalf, id)
    [] lit = "negfloat" -> NodeFloat([FOneHalf EXCEPT !.neg = TRUE], id)
    [] lit = "string" -> NodeString(KeyA, id)

\* literal expressions: a scalar, Sequence({...}) or Map({ {key, ...}, ... })
LitScalar(v) == [k |-> "scalar", v |-> v, keys |-> <<>>, vals |-> <<>>]

LitSeq(vals) == [k |-> "seq", v |-> "null", keys |-> <<>>, vals |-> vals]

LitMap(keys, vals) == [k |-> "map", v |-> "null", keys |-> keys, vals |-> vals]

\* lists of at most two elements of S
Lists(S) == {<<>>} \cup {<<x>> : x \in S} \cup {<<x, y>> : x \in S, y \in S}

\* a literal's operands are constructed left to right, each taking the next
\* identifiers, then the container itself; a Map whose keys repeat throws
RECURSIVE Build(_, _)
RECURSIVE BuildList(_, _, _)
BuildList(lits, id, done) ==
  IF lits = <<>> THEN [exc |-> NoExc, nodes |-> done, next |-> id]
  ELSE LET b == Build(lits[1], id)
       IN IF b.exc.kind # "none"
          THEN [exc |-> b.exc, nodes |-> done, next |-> b.next]
          ELSE BuildList(Tail(lits), b.next, Append(done, b.node))

Build(lit, id) ==
  IF lit.k = "scalar"
  THEN [exc |-> NoExc, node |-> Scalar(lit.v, id), next |-> id + 1]
  ELSE LET l == BuildList(lit.vals, id, <<>>)
       IN IF l.exc.kind # "none"
          THEN [exc |-> l.exc, node |-> NodeNull(NoNodeId), next |-> l.next]
          ELSE IF lit.k = "seq"
          THEN [exc |-> NoExc, node |-> NodeSequence(l.nodes, l.next),
                next |-> l.next + 1]
          ELSE LET m == NodeMap([i \in 1..Len(lit.keys) |->
                                    MapEntry(lit.keys[i], l.nodes[i])], l.next)
               IN [exc |-> m.exc, node |-> m.node, next |-> l.next + 1]

\* the literals self is built from
SelfChildren ==
  {LitScalar("one"), LitMap(<<KeyA>>, <<LitScalar("one")>>),
   LitSeq(<<LitScalar("one")>>)}

\* the literals other is built from
OtherChildren ==
  {LitScalar("two"), LitScalar("float"),
   LitMap(<<KeyB, KeyA>>, <<LitScalar("one"), LitScalar("two")>>)}

Literals(children) ==
  {LitScalar(v) : v \in ScalarLits}
  \cup {LitSeq(vals) : vals \in Lists(children)}
  \cup {LitMap([i \in 1..Len(kv) |-> kv[i][1]], [i \in 1..Len(kv) |-> kv[i][2]]) :
          kv \in Lists(Keys \X children)}

SelfLiterals == Literals(SelfChildren)

OtherLiterals == Literals(OtherChildren)

\* self = <literal>: move assignment of the temporary (a swap); when the
\* constructor throws, self keeps its value and the identifiers are spent
NewSelf ==
  /\ pc = "self"
  /\ \E lit \in SelfLiterals :
       LET b == Build(lit, s_id_)
       IN /\ self' = IF b.exc.kind = "none" THEN b.node ELSE self
          /\ s_id_' = b.next
          /\ exc' = b.exc
  /\ pc' = "other"
  /\ op' = "NewSelf" /\ ret' = 0 /\ prev' = self
  /\ UNCHANGED <<other, steps, validVars, callVars, codecVars>>

\* other = <literal>
NewOther ==
  /\ pc = "other"
  /\ \E lit \in OtherLiterals :
       LET b == Build(lit, s_id_)
       IN /\ other' = IF b.exc.kind = "none" THEN b.node ELSE other
          /\ s_id_' = b.next
          /\ exc' = b.exc
  /\ pc' = "ops"
  /\ op' = "NewOther" /\ ret' = 0 /\ prev' = self
  /\ UNCHANGED <<self, steps, validVars, callVars, codecVars>>

Step == pc = "ops" /\ steps < MaxSteps /\ steps' = steps + 1 /\ pc' = pc

\* self[key]
IndexKey ==
  /\ Step
  /\ \E key \in Keys :
       LET r == Index(self, key, s_id_)
       IN /\ self' = r.node
          /\ s_id_' = IF r.inserted THEN s_id_ + 1 ELSE s_id_
          /\ exc' = r.exc
          /\ ret' = r.ret.id_
          /\ args' = <<key>>
  /\ op' = "IndexKey" /\ prev' = self
  /\ UNCHANGED <<other, validVars, ids, codecVars>>

\* self.erase(key)
EraseKey ==
  /\ Step
  /\ \E key \in Keys :
       LET r == Erase(self, key)
       IN /\ self' = r.node
          /\ exc' = r.exc
          /\ ret' = r.ret
          /\ args' = <<key>>
  /\ op' = "EraseKey" /\ prev' = self
  /\ UNCHANGED <<other, s_id_, validVars, ids, codecVars>>

\* self.merge(other)
MergeOther ==
  /\ Step
  /\ LET r == Merge(self, other)
     IN /\ self' = r.node
        /\ exc' = r.exc
  /\ op' = "MergeOther" /\ ret' = 0 /\ prev' = self
  /\ UNCHANGED <<other, s_id_, validVars, callVars, codecVars>>

\* Node copy(self); self.merge(copy)
MergeCopy ==
  /\ Step
  /\ LET r == Merge(self, self)
     IN /\ self' = r.node
        /\ exc' = r.exc
  /\ op' = "MergeCopy" /\ ret' = 0 /\ prev' = self
  /\ UNCHANGED <<other, s_id_, validVars, callVars, codecVars>>

\* Node self; Node other;
Init ==
  /\ self = NodeNull(0)
  /\ other = NodeNull(1)
  /\ s_id_ = 2
  /\ pc = "self"
  /\ steps = 0
  /\ op = "Init"
  /\ exc = NoExc
  /\ ret = 0
  /\ prev = NodeNull(0)
  /\ validator = 0
  /\ objs = <<>>
  /\ heap = <<>>
  /\ args = <<>>
  /\ ids = <<>>
  /\ text = <<>>
  /\ json_import = JsonImport
  /\ indent_ = 0

Next ==
  \/ NewSelf
  \/ NewOther
  \/ IndexKey
  \/ EraseKey
  \/ MergeOther
  \/ MergeCopy

Spec == Init /\ [][Next]_vars

----------------------------------------------------------------------------
(* helpers of the properties: a map read as a set of keys and a lookup by
   linear scan *)

KeysOf(n) == {n.map_[i].first : i \in 1..Len(n.map_)}

ValueOf(n, key) ==
  LET i == CHOOSE j \in 1..Len(n.map_) : n.map_[j].first = key
  IN n.map_[i].second

StrictlyAscending(m) ==
  \A i \in 1..(Len(m) - 1) : StrLess(m[i].first, m[i+1].first)

RECURSIVE MapsSorted(_)
MapsSorted(n) ==
  CASE n.type_ = "Map" ->
         /\ StrictlyAscending(n.map_)
         /\ \A i \in 1..Len(n.map_) : MapsSorted(n.map_[i].second)
    [] n.type_ = "Sequence" -> \A i \in 1..Len(n.seq_) : MapsSorted(n.seq_[i])
    [] OTHER -> TRUE

\* the identifiers of the nodes of othr that stand opposite a node of another
\* tag, over the corresponding children (same index, same key) of n and othr
RECURSIVE Mismatches(_, _)
Mismatches(n, othr) ==
  IF n.type_ # othr.type_ THEN {othr.id_}
  ELSE IF n.type_ = "Sequence"
  THEN UNION {Mismatches(n.seq_[i], othr.seq_[i]) :
                i \in 1..Min(Len(n.seq_), Len(othr.seq_))}
  ELSE IF n.type_ = "Map"
  THEN UNION {Mismatches(ValueOf(n, k), ValueOf(othr, k)) :
                k \in KeysOf(n) \cap KeysOf(othr)}
  ELSE {}

----------------------------------------------------------------------------
(* C1: in every reachable state every Map node, at any depth of self and of
   other, has its pairs strictly ascending by key (so no key twice): after
   construction from keys in any order, after operator[] insertions, erase
   calls and merge calls, a merge that failed part-way included. *)
C1_MapPairsStrictlyAscending == MapsSorted(self) /\ MapsSorted(other)

\* a merge threw a TypeException after it had already changed the Map self
C1_Witness_PartialMerge ==
  /\ op = "MergeOther"
  /\ exc.kind = "TypeException"
  /\ self.type_ = "Map"
  /\ self # prev
  /\ Len(self.map_) > Len(prev.map_)

(* C2: when self and other are Maps and self.merge(other) succeeds, self
   holds exactly the union of both key sets: a key only in self keeps its
   value, a key only in other gets a copy of other's value, a key in both
   gets the recursive merge of other's value into self's old value; other is
   unchanged. *)
C2_MergeMapIsUnion ==
  [][(/\ op' = "MergeOther"
      /\ self.type_ = "Map" /\ other.type_ = "Map"
      /\ exc'.kind = "none")
     => (/\ other' = other
         /\ self'.type_ = "Map"
         /\ self'.id_ = self.id_
         /\ Len(self'.map_) = Cardinality(KeysOf(self'))
         /\ KeysOf(self') = KeysOf(self) \cup KeysOf(other)
         /\ \A k \in KeysOf(self) \ KeysOf(other) :
              ValueOf(self', k) = ValueOf(self, k)
         /\ \A k \in KeysOf(other) \ KeysOf(self) :
              ValueOf(self', k) = ValueOf(other, k)
         /\ \A k \in KeysOf(self) \cap KeysOf(other) :
              LET r == Merge(ValueOf(self, k), ValueOf(other, k))
              IN r.exc.kind = "none" /\ ValueOf(self', k) = r.node)]_vars

\* a successful merge of two Maps with a key only in self, a key only in
\* other and a key in both whose value changed
C2_Witness_ThreeKinds ==
  /\ op = "MergeOther"
  /\ exc.kind = "none"
  /\ prev.type_ = "Map" /\ other.type_ = "Map"
  /\ KeysOf(prev) \ KeysOf(other) # {}
  /\ KeysOf(other) \ KeysOf(prev) # {}
  /\ \E k \in KeysOf(prev) \cap KeysOf(other) : ValueOf(self, k) # ValueOf(prev, k)

(* C3: self.merge(other) fails with TypeException whenever the tags of self
   and other differ, at the top level or at corresponding children reached by
   the recursion, for every pair of distinct tags (two different scalar tags
   included), and the exception carries the identifier of other's node. *)
C3_MergeTagMismatchThrows ==
  (op = "MergeOther" /\ Mismatches(prev, other) # {})
    => (exc.kind = "TypeException" /\ exc.node_id_ \in Mismatches(prev, other))

(* C14: operator[](key) on a Map is find-or-insert: when the key is present
   it returns the existing value and the map is unchanged; when the key is
   absent it inserts (key, Null), size() grows by exactly one and every key
   present before keeps its value; on a node that is no Map it fails with
   TypeException and changes nothing. *)
C14_IndexFindOrInsert ==
  op = "IndexKey" =>
    IF prev.type_ # "Map"
    THEN exc.kind = "TypeException" /\ self = prev
    ELSE IF args[1] \in KeysOf(prev)
    THEN /\ exc.kind = "none"
         /\ self = prev
         /\ ret = ValueOf(prev, args[1]).id_
    ELSE /\ exc.kind = "none"
         /\ self.type_ = "Map" /\ self.id_ = prev.id_
         /\ Len(self.map_) = Len(prev.map_) + 1
         /\ KeysOf(self) = KeysOf(prev) \cup {args[1]}
         /\ ValueOf(self, args[1]).type_ = "Null"
         /\ ret = ValueOf(self, args[1]).id_
         /\ \A k \in KeysOf(prev) : ValueOf(self, k) = ValueOf(prev, k)

\* a key was inserted between two keys that were present
C14_Witness_InsertedBetween ==
  /\ op = "IndexKey"
  /\ exc.kind = "none"
  /\ args[1] = KeyB
  /\ prev.type_ = "Map"
  /\ KeysOf(prev) = {KeyA, KeyC}
  /\ Len(self.map_) = 3
  /\ self.map_[2].first = KeyB

Max(a, b) == IF a < b THEN b ELSE a

(* C15: when self and other are Sequences of lengths n and m and
   self.merge(other) succeeds, self has length max(n, m): the element at
   every index below min(n, m) is the recursive merge of other's element
   into self's old element, the elements from min(n, m) up to m are copies
   of other's elements, and the elements from m up to n are unchanged. *)
C15_MergeSequenceByIndex ==
  (/\ op = "MergeOther"
   /\ prev.type_ = "Sequence" /\ other.type_ = "Sequence"
   /\ exc.kind = "none")
  => LET n == Len(prev.seq_)
         m == Len(other.seq_)
     IN /\ self.type_ = "Sequence"
        /\ Len(self.seq_) = Max(n, m)
        /\ \A i \in 1..Min(n, m) :
             LET r == Merge(prev.seq_[i], other.seq_[i])
             IN r.exc.kind = "none" /\ self.seq_[i] = r.node
        /\ \A i \in (Min(n, m) + 1)..m : self.seq_[i] = other.seq_[i]
        /\ \A i \in (m + 1)..n : self.seq_[i] = prev.seq_[i]

\* a shorter Sequence took a longer one: its element changed and one was
\* appended
C15_Witness_MergedAndAppended ==
  /\ op = "MergeOther"
  /\ exc.kind = "none"
  /\ prev.type_ = "Sequence" /\ other.type_ = "Sequence"
  /\ Len(prev.seq_) = 1 /\ Len(other.seq_) = 2
  /\ self.seq_[1] # prev.seq_[1]
  /\ self.seq_[2] = other.seq_[2]

(* C16: merge is idempotent on copies: merging a copy of a node into the node
   succeeds and leaves it structurally equal to what it was; after
   self.merge(other) succeeded, a second self.merge(other) succeeds and
   leaves self unchanged. *)
C16_MergeIdempotent ==
  [][/\ op' = "MergeCopy" => (exc'.kind = "none" /\ NodeEq(self', self))
     /\ (op = "MergeOther" /\ exc.kind = "none" /\ op' = "MergeOther")
          => (exc'.kind = "none" /\ self' = self)]_vars

\* the second of two successful merges of a Sequence of two elements: self
\* holds the copies, identifiers included, that the first merge gave it
C16_Witness_SecondMerge ==
  /\ op = "MergeOther"
  /\ steps = 2
  /\ exc.kind = "none"
  /\ self = prev
  /\ self.type_ = "Sequence" /\ other.type_ = "Sequence"
  /\ Len(self.seq_) = 2
  /\ self.seq_ = other.seq_

(* C17: when the tags of self and other differ at the top level,
   self.merge(other) leaves self completely unchanged: its tag, its payload
   and its identifier. *)
C17_MergeMismatchLeavesSelf ==
  (op = "MergeOther" /\ prev.type_ # other.type_) => self = prev

----------------------------------------------------------------------------
(* typed access: a Node of any tag is read with the four strict accessors *)

AccessInts ==
  {Zero64, One64, I64(0 - 1), I64(0 - 4),
   Add64(Pow53, I64(0 - 1)), Pow53, Add64(Pow53, One64),
   Neg64(Add64(Pow53, I64(0 - 1))), Neg64(Pow53), Neg64(Add64(Pow53, One64)),
   Shl64(Pow53), Neg64(Shl64(Pow53)), IntMax64, IntMin64}

AccessFloats ==
  {FZero, FOneHalf, [FOneHalf EXCEPT !.neg = TRUE], FloatOfInt(Pow53),
   FloatOfInt(IntMin64), [neg |-> FALSE, mant |-> One64, exp |-> 63]}

AccessStrings == {<<>>, KeyA, <<116, 101, 115, 116>>}

AccessNodes ==
  {NodeNull(0)}
  \cup {NodeBool(b, 0) : b \in BOOLEAN}
  \cup {NodeInt(i, 0) : i \in AccessInts}
  \cup {NodeFloat(f, 0) : f \in AccessFloats}
  \cup {NodeString(str, 0) : str \in AccessStrings}
  \cup {NodeSequence(q, 0) : q \in {<<>>, <<NodeBool(TRUE, 1), NodeInt(I64(5), 2)>>}}
  \cup {NodeMap(m, 0).node : m \in {<<>>, <<MapEntry(KeyA, NodeNull(1))>>}}

InitAccess ==
  /\ self \in AccessNodes
  /\ other = NodeNull(NoNodeId)
  /\ s_id_ = 3
  /\ pc = "access"
  /\ steps = 0
  /\ op = "Init"
  /\ exc = NoExc
  /\ ret = Returned
  /\ prev = self
  /\ validator = 0
  /\ objs = <<>>
  /\ heap = <<>>
  /\ args = <<>>
  /\ ids = <<>>
  /\ text = <<>>
  /\ json_import = JsonImport
  /\ indent_ = 0

\* the accessors are const: the node is read, never written
Access(name, r) ==
  /\ op' = name
  /\ exc' = r.exc
  /\ ret' = r.ret
  /\ prev' = self
  /\ UNCHANGED <<self, other, s_id_, pc, steps, validVars, callVars, codecVars>>

BoolValue ==
  /\ pc = "access"
  /\ Access("boolValue", boolValue(self))

IntValue ==
  /\ pc = "access"
  /\ Access("intValue", intValue(self))

FloatValue ==
  /\ pc = "access"
  /\ Access("floatValue", floatValue(self))

StringValue ==
  /\ pc = "access"
  /\ Access("stringValue", stringValue(self))

\* unsigned values: 0, 35, 1000, 2^32 - 1, 2^63 - 1, 2^63, 2^63 + 1, 2^64 - 1
UnsignedValues ==
  {Zero64, I64(35), I64(1000), <<0, 2047, LimbLo - 1>>, IntMax64, IntMin64,
   Add64(IntMin64, One64), <<LimbHi - 1, LimbLo - 1, LimbLo - 1>>}

UnsignedTypes == {"unsigned int", "unsigned long int", "unsigned long long int"}

\* Node(value) for a value of the unsigned type
NodeOfUnsigned(type, value, id) ==
  CASE type = "unsigned int" -> [exc |-> NoExc, node |-> NodeUnsignedInt(value, id)]
    [] type = "unsigned long int" -> [exc |-> NoExc, node |-> NodeUnsigned(value, id)]
    [] type = "unsigned long long int" -> NodeUnsignedLongLong(value, id)

\* self = Node(value): the constructor takes the next identifier before its
\* body runs; when it throws, self keeps its value
ConstructUnsigned ==
  /\ pc = "access"
  /\ steps < MaxSteps
  /\ steps' = steps + 1
  /\ \E type \in UnsignedTypes, value \in UnsignedValues :
       /\ type = "unsigned int" => (value[1] = 0 /\ value[2] < 2048)
       /\ LET r == NodeOfUnsigned(type, value, s_id_)
          IN /\ self' = IF r.exc.kind = "none" THEN r.node ELSE self
             /\ exc' = r.exc
       /\ args' = <<type, value>>
  /\ s_id_' = s_id_ + 1
  /\ op' = "NodeOfUnsigned"
  /\ ret' = Returned
  /\ prev' = self
  /\ UNCHANGED <<other, pc, validVars, codecVars, ids>>

AsBool ==
  /\ pc = "access"
  /\ Access("asBool", asBool(self))

AsInt ==
  /\ pc = "access"
  /\ \E r \in asInt(self) : Access("asInt", r)

AsFloat ==
  /\ pc = "access"
  /\ Access("asFloat", asFloat(self))

NextAccess ==
  \/ BoolValue
  \/ IntValue
  \/ FloatValue
  \/ StringValue
  \/ AsBool
  \/ AsInt
  \/ AsFloat
  \/ ConstructUnsigned

SpecAccess == InitAccess /\ [][NextAccess]_vars

\* the Float f is exactly the integer val
FloatIsInt(f, val) ==
  /\ f.exp >= 0
  /\ ScaleUp(f.mant, f.exp) = Mag64(val)
  /\ f.neg = IsNeg64(val)

Threw == exc.kind # "none"

(* C9: boolValue, intValue and stringValue return the payload when the tag is
   Boolean, Integer and String respectively and fail with TypeException for
   every other tag; floatValue fails with TypeException for Null, Boolean,
   String, Sequence and Map; a failing accessor leaves the node unchanged. *)
C9_StrictAccessors ==
  /\ op = "boolValue" =>
       IF self.type_ = "Boolean" THEN ~Threw /\ ret.bool_ = self.bool_
       ELSE exc.kind = "TypeException"
  /\ op = "intValue" =>
       IF self.type_ = "Integer" THEN ~Threw /\ ret.int_ = self.int_
       ELSE exc.kind = "TypeException"
  /\ op = "stringValue" =>
       IF self.type_ = "String" THEN ~Threw /\ ret.str_ = self.str_
       ELSE exc.kind = "TypeException"
  /\ (op = "floatValue" /\ self.type_ \in {"Null", "Boolean", "String", "Sequence", "Map"})
       => exc.kind = "TypeException"
  /\ (op \in {"boolValue", "intValue", "floatValue", "stringValue"} /\ Threw)
       => self = prev

\* intValue was refused on a non-empty Map
C9_Witness_WrongTag ==
  /\ op = "intValue"
  /\ exc.kind = "TypeException"
  /\ self.type_ = "Map"
  /\ self.map_ # <<>>
  /\ self = prev

(* C10: floatValue on an Integer node with value v returns v converted to
   float if and only if -2^53 <= v <= 2^53, and fails with TypeException for
   every Integer outside that range. *)
C10_FloatValueOfInteger ==
  (op = "floatValue" /\ self.type_ = "Integer")
    => IF ~ULess(Pow53, Mag64(self.int_))
       THEN ~Threw /\ FloatIsInt(ret.float_, self.int_)
       ELSE exc.kind = "TypeException"

\* floatValue returned -2^53 for the Integer -2^53 ...
C10_Witness_Boundary ==
  /\ op = "floatValue"
  /\ self.type_ = "Integer"
  /\ self.int_ = Neg64(Pow53)
  /\ ~Threw
  /\ ret.float_ = [neg |-> TRUE, mant |-> One64, exp |-> 53]

\* 1 as a Float
FOne == [neg |-> FALSE, mant |-> One64, exp |-> 0]

(* C11: the lenient accessors follow the table: Null gives asBool false,
   asInt 0, asFloat 0.0; Boolean b gives asBool b, asInt 1 if b else 0,
   asFloat 1.0 if b else 0.0; Integer and FloatingPoint are cast to the
   requested type (asBool is true exactly for non-zero values, asInt of a
   FloatingPoint in the range of Int is the value cut toward zero); String,
   Sequence and Map fail with TypeException. *)
C11_LenientAccessors ==
  /\ (op \in {"asBool", "asInt", "asFloat"} /\ self.type_ \in {"String", "Sequence", "Map"})
       => exc.kind = "TypeException"
  /\ (op \in {"asBool", "asInt", "asFloat"}
        /\ self.type_ \in {"Null", "Boolean", "Integer", "FloatingPoint"})
       => ~Threw
  /\ op = "asBool" =>
       CASE self.type_ = "Null" -> ret.bool_ = FALSE
         [] self.type_ = "Boolean" -> ret.bool_ = self.bool_
         [] self.type_ = "Integer" -> ret.bool_ = (self.int_ # Zero64)
         [] self.type_ = "FloatingPoint" -> ret.bool_ = (self.float_.mant # Zero64)
         [] OTHER -> TRUE
  /\ op = "asInt" =>
       CASE self.type_ = "Null" -> ret.int_ = Zero64
         [] self.type_ = "Boolean" -> ret.int_ = IF self.bool_ THEN One64 ELSE Zero64
         [] self.type_ = "Integer" -> ret.int_ = self.int_
         [] self.type_ = "FloatingPoint" ->
              Cardinality(IntOfFloat(self.float_)) = 1 => ret.int_ \in IntOfFloat(self.float_)
         [] OTHER -> TRUE
  /\ op = "asFloat" =>
       CASE self.type_ = "Null" -> ret.float_ = FZero
         [] self.type_ = "Boolean" -> ret.float_ = IF self.bool_ THEN FOne ELSE FZero
         [] self.type_ = "Integer" -> ret.float_ = FloatOfInt(self.int_)
         [] self.type_ = "FloatingPoint" -> ret.float_ = self.float_
         [] OTHER -> TRUE

(* C12: constructing a Node from an unsigned value above 2^63 - 1 fails with
   OverflowException for every unsigned type wide enough to hold such a value
   (unsigned long and unsigned long long); every unsigned value up to 2^63 - 1
   yields an Integer node that holds exactly that value. *)
C12_UnsignedOverflow ==
  (op = "NodeOfUnsigned" /\ args[1] \in {"unsigned long int", "unsigned long long int"})
    => IF ULess(IntMax64, args[2])
       THEN exc.kind = "OverflowException" /\ self = prev
       ELSE ~Threw /\ self.type_ = "Integer" /\ self.int_ = args[2]

----------------------------------------------------------------------------
(* Validator: the tag it accepts, its validation function and union Storage,
   a pointer that is null or points to a range, to the child validators or to
   the map groups *)

NullAux ==
  [null |-> TRUE, int_range_ |-> <<Zero64, Zero64>>,
   float_range_ |-> <<FZero, FZero>>, seq_validators_ |-> <<>>,
   map_groups_ |-> <<>>]

MkValidator(type, fcn, aux) == [type_ |-> type, fcn_ |-> fcn, aux_data_ |-> aux]

\* Validator(NodeType, ValidationFcn): aux_data_.int_range_ = nullptr
ValidatorFcn(type, validation_fcn) == MkValidator(type, validation_fcn, NullAux)

ValidatorIntRange(int_range) ==
  MkValidator("Integer", "vIntRange",
              [NullAux EXCEPT !.null = FALSE, !.int_range_ = int_range])

ValidatorFloatRange(float_range) ==
  MkValidator("FloatingPoint", "vFloatRange",
              [NullAux EXCEPT !.null = FALSE, !.float_range_ = float_range])

ValidatorSeq(seq_validators) ==
  MkValidator("Sequence", "vSequence",
              [NullAux EXCEPT !.null = FALSE, !.seq_validators_ = seq_validators])

ValidatorMap(map_groups) ==
  MkValidator("Map", "vMap",
              [NullAux EXCEPT !.null = FALSE, !.map_groups_ = map_groups])

NullType == ValidatorFcn("Null", "vAlways")

BooleanType == ValidatorFcn("Boolean", "vAlways")

IntegerType == ValidatorFcn("Integer", "vAlways")

IntegerTypeRange(min, max) == ValidatorIntRange(<<min, max>>)

IntegerTypeFcn(validation_fcn) == ValidatorFcn("Integer", validation_fcn)

FloatingPointType == ValidatorFcn("FloatingPoint", "vAlways")

FloatingPointTypeRange(min, max) == ValidatorFloatRange(<<min, max>>)

StringType == ValidatorFcn("String", "vAlways")

SequenceType(child_types) == ValidatorSeq(child_types)

SequenceTypeFcn(validation_fcn) == ValidatorFcn("Sequence", validation_fcn)

MapType(groups) == ValidatorMap(groups)

MapEntryType(key, v, requiredness) ==
  [key_ |-> key, validator_ |-> v, requiredness_ |-> requiredness]

MapGroup(entries, closedness, enable_fcn) ==
  [entries_ |-> entries, closedness_ |-> closedness, enable_fcn_ |-> enable_fcn]

\* faulty variant: the tag of the node is not compared
checkType_Never(v, type) == NoExc

\* Validator::checkType: TypeException() names no node
checkType(v, type) == IF v.type_ # type THEN TypeExceptionNoNode ELSE NoExc

intRange(v) ==
  IF checkType(v, "Integer").kind # "none"
  THEN [exc |-> checkType(v, "Integer"), ret |-> NullAux.int_range_]
  ELSE IF v.aux_data_.null
  THEN [exc |-> TypeExceptionNoNode, ret |-> NullAux.int_range_]
  ELSE [exc |-> NoExc, ret |-> v.aux_data_.int_range_]

floatRange(v) ==
  IF checkType(v, "FloatingPoint").kind # "none"
  THEN [exc |-> checkType(v, "FloatingPoint"), ret |-> NullAux.float_range_]
  ELSE IF v.aux_data_.null
  THEN [exc |-> TypeExceptionNoNode, ret |-> NullAux.float_range_]
  ELSE [exc |-> NoExc, ret |-> v.aux_data_.float_range_]

seqValidators(v) ==
  [exc |-> checkType(v, "Sequence"), ret |-> v.aux_data_.seq_validators_]

mapGroups(v) == [exc |-> checkType(v, "Map"), ret |-> v.aux_data_.map_groups_]

vAlways(node, v) == NoExc

vAllMaps(node) == [exc |-> NoExc, ret |-> TRUE]

vIntRange(node, v) ==
  LET range == intRange(v)
      val == intValue(node)
  IN IF range.exc.kind # "none" THEN range.exc
     ELSE IF val.exc.kind # "none" THEN val.exc
     ELSE IF SLess(val.ret.int_, range.ret[1]) \/ SLess(range.ret[2], val.ret.int_)
     THEN IntRangeException(node)
     ELSE NoExc

vFloatRange(node, v) ==
  LET range == floatRange(v)
      val == floatValue(node)
  IN IF range.exc.kind # "none" THEN range.exc
     ELSE IF val.exc.kind # "none" THEN val.exc
     ELSE IF FLess(val.ret.float_, range.ret[1]) \/ FLess(range.ret[2], val.ret.float_)
     THEN FloatRangeException(node)
     ELSE NoExc

\* validation functions and a group enable function supplied by the caller
evenInt(node, v) ==
  LET val == intValue(node)
  IN IF val.exc.kind # "none" THEN val.exc
     ELSE IF IsOdd64(val.ret.int_) THEN ValidationException(node)
     ELSE NoExc

threeIntegers(node, v) ==
  IF node.type_ # "Sequence" THEN TypeException(node)
  ELSE IF Len(node.seq_) # 3 THEN ValidationException(node)
  ELSE IF \E i \in 1..Len(node.seq_) : node.seq_[i].type_ # "Integer"
  THEN ValidationException(
         node.seq_[CHOOSE i \in 1..Len(node.seq_) :
                     /\ node.seq_[i].type_ # "Integer"
                     /\ \A j \in 1..(i - 1) : node.seq_[j].type_ = "Integer"])
  ELSE NoExc

hasKeyB(node) ==
  IF node.type_ # "Map" THEN [exc |-> TypeException(node), ret |-> FALSE]
  ELSE [exc |-> NoExc, ret |-> Find(node.map_, KeyB) # Len(node.map_) + 1]

\* a group enable function supplied by the caller that reads the node:
\* return node.at("a").boolValue()
keyAIsTrue(node) ==
  IF node.type_ # "Map" THEN [exc |-> TypeException(node), ret |-> FALSE]
  ELSE IF Find(node.map_, KeyA) = Len(node.map_) + 1
  THEN [exc |-> KeyException(node), ret |-> FALSE]
  ELSE [exc |-> boolValue(node.map_[Find(node.map_, KeyA)].second).exc,
        ret |-> boolValue(node.map_[Find(node.map_, KeyA)].second).ret.bool_]

RECURSIVE Validate(_, _)
RECURSIVE vSequenceAny(_, _, _)
RECURSIVE vSequenceLoop(_, _, _)
RECURSIVE vMapLoop(_, _, _, _)
RECURSIVE MapGroupEntries(_, _, _)
RECURSIVE MapGroupValidate(_, _)

\* faulty variant: only the first alternative is tried
vSequenceAny_FirstOnly(validators, child, i) ==
  Validate(validators[1], child).kind = "none"

\* the inner loop of vSequence from alternative i on: some validator accepts
\* the child; whatever an alternative throws is caught
vSequenceAny(validators, child, i) ==
  IF i > Len(validators) THEN FALSE
  ELSE IF Validate(validators[i], child).kind = "none" THEN TRUE
  ELSE vSequenceAny(validators, child, i + 1)

\* the outer loop of vSequence from child i on
vSequenceLoop(validators, seq, i) ==
  IF i > Len(seq) THEN NoExc
  ELSE IF ~vSequenceAny(validators, seq[i], 1) THEN ValidationException(seq[i])
  ELSE vSequenceLoop(validators, seq, i + 1)

vSequence(node, v) ==
  LET validators == seqValidators(v)
  IN IF validators.exc.kind # "none" THEN validators.exc
     ELSE IF validators.ret = <<>> THEN NoExc
     ELSE IF node.type_ # "Sequence" THEN TypeException(node)
     ELSE vSequenceLoop(validators.ret, node.seq_, 1)

\* faulty variant: an Optional entry is never validated
MapEntryTypeValidate_OptionalSkipped(entry, node) ==
  IF node.type_ # "Map" THEN TypeException(node)
  ELSE IF entry.requiredness_ = "Optional" THEN NoExc
  ELSE LET iter == Find(node.map_, entry.key_)
       IN IF iter = Len(node.map_) + 1 THEN ValidationException(node)
          ELSE Validate(entry.validator_, node.map_[iter].second)

\* MapEntryType::validate
MapEntryTypeValidate(entry, node) ==
  IF node.type_ # "Map" THEN TypeException(node)
  ELSE LET iter == Find(node.map_, entry.key_)
       IN IF iter = Len(node.map_) + 1
          THEN IF entry.requiredness_ = "Optional" THEN NoExc
               ELSE ValidationException(node)
          ELSE Validate(entry.validator_, node.map_[iter].second)

MapGroupIsEnabled(group, node) ==
  CASE group.enable_fcn_ = "vAllMaps" -> vAllMaps(node)
    [] group.enable_fcn_ = "hasKeyB" -> hasKeyB(node)
    [] group.enable_fcn_ = "keyAIsTrue" -> keyAIsTrue(node)

\* the first loop of MapGroup::validate from entry i on
MapGroupEntries(entries, node, i) ==
  IF i > Len(entries) THEN NoExc
  ELSE LET r == MapEntryTypeValidate(entries[i], node)
       IN IF r.kind # "none" THEN r ELSE MapGroupEntries(entries, node, i + 1)

\* MapGroup::validate: the entries, then no other keys unless more are allowed
MapGroupValidate(group, node) ==
  LET r == MapGroupEntries(group.entries_, node, 1)
  IN IF r.kind # "none" THEN r
     ELSE IF group.closedness_ = "AllowMoreEntries" THEN NoExc
     ELSE IF node.type_ # "Map" THEN TypeException(node)
     ELSE IF \E i \in 1..Len(node.map_) :
               \A j \in 1..Len(group.entries_) :
                 group.entries_[j].key_ # node.map_[i].first
     THEN ValidationException(node)
     ELSE NoExc

\* faulty variant: the first enabled group decides
RECURSIVE vMapLoop_FirstMatch(_, _, _, _)
vMapLoop_FirstMatch(groups, node, i, enabled) ==
  IF i > Len(groups) THEN ValidationException(node)
  ELSE LET en == MapGroupIsEnabled(groups[i], node)
       IN IF en.exc.kind # "none" THEN en.exc
          ELSE IF en.ret THEN MapGroupValidate(groups[i], node)
          ELSE vMapLoop_FirstMatch(groups, node, i + 1, enabled)

\* the loop of vMap from group i on
vMapLoop(groups, node, i, enabled) ==
  IF i > Len(groups)
  THEN IF enabled THEN NoExc ELSE ValidationException(node)
  ELSE LET en == MapGroupIsEnabled(groups[i], node)
       IN IF en.exc.kind # "none" THEN en.exc
          ELSE IF en.ret
          THEN LET r == MapGroupValidate(groups[i], node)
               IN IF r.kind # "none" THEN r
                  ELSE vMapLoop(groups, node, i + 1, TRUE)
          ELSE vMapLoop(groups, node, i + 1, enabled)

vMap(node, v) ==
  LET groups == mapGroups(v)
  IN IF groups.exc.kind # "none" THEN groups.exc
     ELSE IF groups.ret = <<>> THEN NoExc
     ELSE vMapLoop(groups.ret, node, 1, FALSE)

\* fcn_(node, *this)
CallFcn(v, node) ==
  CASE v.fcn_ = "vAlways" -> vAlways(node, v)
    [] v.fcn_ = "vIntRange" -> vIntRange(node, v)
    [] v.fcn_ = "vFloatRange" -> vFloatRange(node, v)
    [] v.fcn_ = "vSequence" -> vSequence(node, v)
    [] v.fcn_ = "vMap" -> vMap(node, v)
    [] v.fcn_ = "evenInt" -> evenInt(node, v)
    [] v.fcn_ = "threeIntegers" -> threeIntegers(node, v)

\* Validator::validate: the exception thrown, NoExc when the node is accepted
Validate(v, node) ==
  IF checkType(v, node.type_).kind # "none" THEN checkType(v, node.type_)
  ELSE CallFcn(v, node)

----------------------------------------------------------------------------
(* validation: a Validator built with the convenience constructors is applied
   to a Node built from a literal *)

MaxAlts == 2

MaxElems == 2

MaxGroups == 2

\* the lists of at most n elements of S
RECURSIVE ListsUpTo(_, _)
ListsUpTo(S, n) ==
  IF n = 0 THEN {<<>>}
  ELSE LET shorter == ListsUpTo(S, n - 1)
       IN shorter \cup {Append(l, x) : l \in shorter, x \in S}

\* 10.0 = 5 * 2^1
FTen == [neg |-> FALSE, mant |-> I64(5), exp |-> 1]

LeafValidators ==
  {NullType, BooleanType, IntegerType, IntegerTypeRange(Zero64, One64),
   IntegerTypeRange(Two64, I64(4)), IntegerTypeFcn("evenInt"),
   FloatingPointType, FloatingPointTypeRange(FZero, FTen), StringType,
   SequenceTypeFcn("threeIntegers")}

\* the alternatives of a sequence validator
Alternatives ==
  {IntegerTypeRange(Zero64, One64), IntegerTypeRange(Two64, I64(4)), BooleanType}

SequenceValidators == {SequenceType(alts) : alts \in ListsUpTo(Alternatives, MaxAlts)}

EntryLists ==
  {<<>>,
   <<MapEntryType(KeyA, NullType, "Required")>>,
   <<MapEntryType(KeyA, NullType, "Optional"),
     MapEntryType(KeyB, IntegerTypeRange(Zero64, One64), "Optional")>>,
   <<MapEntryType(KeyC, SequenceType(<<IntegerTypeRange(Zero64, One64)>>), "Required"),
     MapEntryType(KeyB, IntegerTypeRange(Zero64, One64), "Optional")>>}

MapGroups ==
  {MapGroup(entries, closedness, enable_fcn) :
     entries \in EntryLists,
     closedness \in {"AllowMoreEntries", "NoMoreEntries"},
     enable_fcn \in {"vAllMaps", "hasKeyB"}}
  \cup {MapGroup(entries, "AllowMoreEntries", "keyAIsTrue") :
          entries \in {<<>>, <<MapEntryType(KeyB, IntegerTypeRange(Zero64, One64),
                                            "Required")>>}}

MapValidators == {MapType(groups) : groups \in ListsUpTo(MapGroups, MaxGroups)}

Validators == LeafValidators \cup SequenceValidators \cup MapValidators

\* the literals the validated nodes are built from
LitOfPairs(kv) ==
  LitMap([i \in 1..Len(kv) |-> kv[i][1]], [i \in 1..Len(kv) |-> kv[i][2]])

OptionalPair(key, lits) == {<<>>} \cup {<<<<key, l>>>> : l \in lits}

ValidateLits ==
  {LitScalar(v) :
     v \in {"null", "true", "zero", "one", "five", "float", "negfloat", "string"}}
  \cup {LitSeq(vals) :
          vals \in ListsUpTo({LitScalar("zero"), LitScalar("two"), LitScalar("true")},
                             MaxElems)}
  \cup {LitOfPairs(kc \o ka \o kb) :
          kc \in OptionalPair(KeyC, {LitScalar("one"),
                                     LitSeq(<<LitScalar("zero"), LitScalar("one")>>)}),
          ka \in OptionalPair(KeyA, {LitScalar("null"), LitScalar("true")}),
          kb \in OptionalPair(KeyB, {LitScalar("zero"), LitScalar("five")})}

ValidateNodes == {Build(lit, 0).node : lit \in ValidateLits}

InitValidate ==
  /\ validator \in Validators
  /\ objs = <<>>
  /\ heap = <<>>
  /\ args = <<>>
  /\ ids = <<>>
  /\ self \in ValidateNodes
  /\ other = NodeNull(NoNodeId)
  /\ s_id_ = 0
  /\ pc = "validate"
  /\ steps = 0
  /\ op = "Init"
  /\ exc = NoExc
  /\ ret = 0
  /\ prev = self
  /\ text = <<>>
  /\ json_import = JsonImport
  /\ indent_ = 0

\* validator.validate(self): both are const
ValidateNode ==
  /\ pc = "validate"
  /\ op' = "validate"
  /\ exc' = Validate(validator, self)
  /\ prev' = self
  /\ UNCHANGED <<self, other, s_id_, pc, steps, ret, validVars, callVars, codecVars>>

NextValidate == ValidateNode

SpecValidate == InitValidate /\ [][NextValidate]_vars

\* the map groups and the alternatives of the validator under test
Groups == validator.aux_data_.map_groups_

Alts == validator.aux_data_.seq_validators_

Accepted == exc.kind = "none"

\* the groups whose enable function returns true for self
EnabledGroups == {i \in 1..Len(Groups) : MapGroupIsEnabled(Groups[i], self).ret}

\* the groups whose enable function throws for self
ThrowingGroups ==
  {i \in 1..Len(Groups) : MapGroupIsEnabled(Groups[i], self).exc.kind # "none"}

(* C5: a Map validator with group list G, whose enable functions all return
   for the node, accepts a Map node if and only if G is empty, or at least one
   group is enabled for the node and every enabled group validates it: the
   enabled groups are enforced together, a group that is not enabled imposes
   nothing. *)
C5_MapGroupsConjunction ==
  (op = "validate" /\ validator.fcn_ = "vMap" /\ self.type_ = "Map"
   /\ ThrowingGroups = {})
    => (Accepted <=>
          \/ Groups = <<>>
          \/ /\ EnabledGroups # {}
             /\ \A i \in EnabledGroups :
                  MapGroupValidate(Groups[i], self).kind = "none")

\* two groups are enabled, the first validates the node, the second does not,
\* and the node is rejected
C5_Witness_SecondGroupRejects ==
  /\ op = "validate"
  /\ validator.fcn_ = "vMap" /\ self.type_ = "Map"
  /\ Len(Groups) = 2
  /\ EnabledGroups = {1, 2}
  /\ MapGroupValidate(Groups[1], self).kind = "none"
  /\ MapGroupValidate(Groups[2], self).kind # "none"
  /\ ~Accepted

\* the groups whose enable function returns for self, in their order
ReturningGroups ==
  SelectSeq(Groups, LAMBDA g : MapGroupIsEnabled(g, self).exc.kind = "none")

(* C25: when the enable function of a group throws for the Map node under
   validation, validate ends as it ends for the validator without that group
   when some group is left, and with the ValidationException of a map that
   matches no group when none is left: the exception of the enable function
   does not leave validate and the entries of the group are not enforced. *)
C25_EnableThrowsMeansDisabled ==
  (op = "validate" /\ validator.fcn_ = "vMap" /\ self.type_ = "Map"
   /\ ThrowingGroups # {})
    => exc = vMapLoop(ReturningGroups, self, 1, FALSE)

\* the elements of self that no alternative accepts
Unmatched ==
  {i \in 1..Len(self.seq_) :
     \A j \in 1..Len(Alts) : Validate(Alts[j], self.seq_[i]).kind # "none"}

(* C6: a Sequence validator with alternatives accepts a Sequence if and only
   if every element is accepted by at least one alternative, whatever its
   position; with no alternative it accepts every Sequence; on rejection it
   throws a ValidationException that names the first element no alternative
   accepts. *)
C6_SequenceAlternatives ==
  (op = "validate" /\ validator.fcn_ = "vSequence" /\ self.type_ = "Sequence")
    => IF Alts = <<>> \/ Unmatched = {}
       THEN Accepted
       ELSE LET first == CHOOSE i \in Unmatched : \A k \in Unmatched : i <= k
            IN exc = ValidationException(self.seq_[first])

\* a Sequence is accepted whose first element only the second alternative
\* accepts and whose second element only the first alternative accepts
C6_Witness_NotByPosition ==
  /\ op = "validate"
  /\ validator.fcn_ = "vSequence" /\ self.type_ = "Sequence"
  /\ Len(Alts) = 2 /\ Len(self.seq_) = 2
  /\ Validate(Alts[1], self.seq_[1]).kind # "none"
  /\ Validate(Alts[2], self.seq_[2]).kind # "none"
  /\ Accepted

\* what the documentation of a map group asks of a node
GroupAccepts(group, node) ==
  /\ \A j \in 1..Len(group.entries_) :
       LET e == group.entries_[j]
       IN /\ e.requiredness_ = "Required" => e.key_ \in KeysOf(node)
          /\ e.key_ \in KeysOf(node)
               => Validate(e.validator_, ValueOf(node, e.key_)).kind = "none"
  /\ group.closedness_ = "NoMoreEntries"
       => KeysOf(node) \subseteq {group.entries_[j].key_ : j \in 1..Len(group.entries_)}

(* C7: a map group validates a Map node if and only if every Required key of
   the group is present, every listed key that is present has a value its
   child validator accepts and, when the group allows no more entries, every
   key of the node is listed; an absent Optional key never fails.  A validator
   with that single enabled group accepts exactly these nodes. *)
C7_MapGroupValidates ==
  (op = "validate" /\ validator.fcn_ = "vMap" /\ self.type_ = "Map")
    => /\ \A i \in 1..Len(Groups) :
            (MapGroupValidate(Groups[i], self).kind = "none")
              <=> GroupAccepts(Groups[i], self)
       /\ (Len(Groups) = 1 /\ EnabledGroups = {1})
            => (Accepted <=> GroupAccepts(Groups[1], self))

\* a closed group with a present Required key and an absent Optional key
\* accepts the node
C7_Witness_OptionalAbsent ==
  /\ op = "validate"
  /\ validator.fcn_ = "vMap" /\ self.type_ = "Map"
  /\ Len(Groups) = 1 /\ EnabledGroups = {1}
  /\ Groups[1].closedness_ = "NoMoreEntries"
  /\ \E j \in 1..Len(Groups[1].entries_) :
       /\ Groups[1].entries_[j].requiredness_ = "Optional"
       /\ Groups[1].entries_[j].key_ \notin KeysOf(self)
  /\ \E j \in 1..Len(Groups[1].entries_) :
       /\ Groups[1].entries_[j].requiredness_ = "Required"
       /\ Groups[1].entries_[j].key_ \in KeysOf(self)
  /\ Accepted

(* C8: validate throws TypeException whenever the tag of the node differs from
   the tag of the validator, for every shape of validator, and before the
   range, the validation function, the child validators or the groups are
   consulted: the exception is the one of checkType, which names no node.  A
   Null validator accepts the Null node and no other. *)
C8_TagMismatchThrowsFirst ==
  op = "validate"
    => /\ self.type_ # validator.type_ => exc = TypeExceptionNoNode
       /\ validator = NullType => (Accepted <=> self.type_ = "Null")

\* a floating point range validator refuses the Integer 1, which floatValue
\* would have widened to a value inside the range
C8_Witness_IntegerUnderFloatRange ==
  /\ op = "validate"
  /\ validator = FloatingPointTypeRange(FZero, FTen)
  /\ self.type_ = "Integer" /\ self.int_ = One64
  /\ exc.kind = "TypeException"

----------------------------------------------------------------------------
(* JsonExport: the text is a sequence of bytes *)

Ch ==
  [quote |-> 34, backslash |-> 92, slash |-> 47, backspace |-> 8,
   formfeed |-> 12, newline |-> 10, return |-> 13, tab |-> 9, space |-> 32,
   zero |-> 48, nine |-> 57, minus |-> 45, plus |-> 43, dot |-> 46,
   comma |-> 44, colon |-> 58, lbracket |-> 91, rbracket |-> 93,
   lbrace |-> 123, rbrace |-> 125, a |-> 97, b |-> 98, e |-> 101, f |-> 102,
   n |-> 110, r |-> 114, t |-> 116, u |-> 117, A |-> 65, E |-> 69, F |-> 70]

\* "null", "true", "false"
TextNull == <<110, 117, 108, 108>>

TextTrue == <<116, 114, 117, 101>>

TextFalse == <<102, 97, 108, 115, 101>>

\* the decimal digits of the unsigned x, none for zero
RECURSIVE DigitsOf(_)
DigitsOf(x) ==
  IF x = Zero64 THEN <<>>
  ELSE LET d == DivMod64(x, 10)
       IN Append(DigitsOf(d.quot), Ch.zero + d.rem)

\* operator<< of a long long
dumpInteger(value) ==
  IF value = Zero64 THEN <<Ch.zero>>
  ELSE IF IsNeg64(value) THEN <<Ch.minus>> \o DigitsOf(Mag64(value))
  ELSE DigitsOf(value)

dumpBoolean(value) == IF value THEN TextTrue ELSE TextFalse

\* JsonExport::precision_
precision_ == 6

\* digits without its trailing zeros, the first digit kept
RECURSIVE StripZeros(_)
StripZeros(digits) ==
  IF Len(digits) > 1 /\ digits[Len(digits)] = Ch.zero
  THEN StripZeros(SubSeq(digits, 1, Len(digits) - 1))
  ELSE digits

\* operator<< of a whole double of more than precision_ digits: the general
\* format turns to d.ddddde+XX without trailing zeros; covered when no digit
\* past precision_ has to be rounded away
dumpScientific(digits, significant) ==
  IF \E i \in (precision_ + 1)..Len(digits) : digits[i] # Ch.zero
  THEN [exc |-> NotModelled, out |-> <<>>]
  ELSE [exc |-> NoExc,
        out |-> <<significant[1]>>
                \o (IF Len(significant) > 1
                    THEN <<Ch.dot>> \o Tail(significant) ELSE <<>>)
                \o <<Ch.e, Ch.plus, Ch.zero + ((Len(digits) - 1) \div 10),
                     Ch.zero + ((Len(digits) - 1) % 10)>>]

\* dumpFloat of a whole value from 10^precision_ on, below 2^64: the text of
\* operator<< and then ".0"
dumpFloatLarge(sign, digits) ==
  [exc |-> dumpScientific(digits, StripZeros(SubSeq(digits, 1, precision_))).exc,
   out |-> sign
           \o dumpScientific(digits, StripZeros(SubSeq(digits, 1, precision_))).out
           \o <<Ch.dot, Ch.zero>>]

\* operator<< of a double at precision_, then ".0" when the value is whole
\* and below 2^64: covered for whole values below 2^40 and for halves below
\* 10^5
dumpFloat(value) ==
  LET sign == IF value.neg THEN <<Ch.minus>> ELSE <<>>
      whole == IF value.exp >= 0 /\ value.exp < 20
               THEN ScaleUp(value.mant, value.exp) ELSE Zero64
  IN IF value.exp >= 0 /\ value.exp < 20 /\ ULess(whole, I64(1000000))
     THEN [exc |-> NoExc,
           out |-> sign \o dumpInteger(whole) \o <<Ch.dot, Ch.zero>>]
     ELSE IF value.exp >= 0 /\ value.exp < 20 /\ ULess(value.mant, I64(1000000))
     THEN dumpFloatLarge(sign, DigitsOf(whole))
     ELSE IF value.exp = 0 - 1 /\ ULess(value.mant, I64(200000))
     THEN [exc |-> NoExc,
           out |-> sign \o dumpInteger(Shr64(value.mant)) \o <<Ch.dot, Ch.zero + 5>>]
     ELSE [exc |-> NotModelled, out |-> <<>>]

codes ==
  <<48, 49, 50, 51, 52, 53, 54, 55, 56, 57, 97, 98, 99, 100, 101, 102>>

dumpHex(value) ==
  <<Ch.backslash, Ch.u,
    codes[((value \div 4096) % 16) + 1], codes[((value \div 256) % 16) + 1],
    codes[((value \div 16) % 16) + 1], codes[(value % 16) + 1]>>

\* faulty variant: a quote is written as it is
dumpChar_QuoteRaw(c) ==
  IF c = Ch.backslash THEN <<Ch.backslash, Ch.backslash>>
  ELSE IF c < 32 THEN dumpHex(c)
  ELSE <<c>>

\* one turn of the loop of dumpString; a char that is signed holds the bytes
\* from 128 on as negative values, which are no control characters either way
dumpChar(c) ==
  IF c = Ch.quote THEN <<Ch.backslash, Ch.quote>>
  ELSE IF c = Ch.backslash THEN <<Ch.backslash, Ch.backslash>>
  ELSE IF c = Ch.slash THEN <<Ch.backslash, Ch.slash>>
  ELSE IF c = Ch.backspace THEN <<Ch.backslash, Ch.b>>
  ELSE IF c = Ch.formfeed THEN <<Ch.backslash, Ch.f>>
  ELSE IF c = Ch.newline THEN <<Ch.backslash, Ch.n>>
  ELSE IF c = Ch.return THEN <<Ch.backslash, Ch.r>>
  ELSE IF c = Ch.tab THEN <<Ch.backslash, Ch.t>>
  ELSE IF c < 32 THEN dumpHex(c)
  ELSE <<c>>

RECURSIVE dumpStringLoop(_, _)
dumpStringLoop(value, i) ==
  IF i > Len(value) THEN <<>>
  ELSE dumpChar(value[i]) \o dumpStringLoop(value, i + 1)

dumpString(value) == <<Ch.quote>> \o dumpStringLoop(value, 1) \o <<Ch.quote>>

dumpOffset(offset) ==
  IF offset = 0 THEN <<>>
  ELSE <<Ch.newline>> \o [i \in 1..offset |-> Ch.space]

RECURSIVE dumpNode(_, _, _)
RECURSIVE dumpSequenceLoop(_, _, _, _)
RECURSIVE dumpMapLoop(_, _, _, _)

\* the loop of dumpSequence from element i on; offset is already increased
dumpSequenceLoop(seq, indent, offset, i) ==
  IF i > Len(seq) THEN [exc |-> NoExc, out |-> <<>>]
  ELSE LET sep == IF i > 1 THEN <<Ch.comma>> \o dumpOffset(offset) ELSE <<>>
           n == dumpNode(seq[i], indent, offset)
           rest == dumpSequenceLoop(seq, indent, offset, i + 1)
       IN IF n.exc.kind # "none" THEN n
          ELSE [exc |-> rest.exc, out |-> sep \o n.out \o rest.out]

dumpSequence(node, indent, offset) ==
  LET body == dumpSequenceLoop(node.seq_, indent, offset + indent, 1)
  IN [exc |-> body.exc,
      out |-> <<Ch.lbracket>> \o dumpOffset(offset + indent) \o body.out
              \o dumpOffset(offset) \o <<Ch.rbracket>>]

\* the loop of dumpMap from pair i on; offset is already increased
dumpMapLoop(map, indent, offset, i) ==
  IF i > Len(map) THEN [exc |-> NoExc, out |-> <<>>]
  ELSE LET sep == IF i > 1 THEN <<Ch.comma>> \o dumpOffset(offset) ELSE <<>>
           key == dumpString(map[i].first) \o <<Ch.colon>>
                  \o (IF indent # 0 THEN <<Ch.space>> ELSE <<>>)
           n == dumpNode(map[i].second, indent, offset)
           rest == dumpMapLoop(map, indent, offset, i + 1)
       IN IF n.exc.kind # "none" THEN n
          ELSE [exc |-> rest.exc, out |-> sep \o key \o n.out \o rest.out]

\* the closing brace of the top-level object goes onto a new line
dumpMap(node, indent, offset) ==
  LET body == dumpMapLoop(node.map_, indent, offset + indent, 1)
  IN [exc |-> body.exc,
      out |-> <<Ch.lbrace>> \o dumpOffset(offset + indent) \o body.out
              \o dumpOffset(offset)
              \o (IF indent # 0 /\ offset = 0 THEN <<Ch.newline>> ELSE <<>>)
              \o <<Ch.rbrace>>]

dumpNode(node, indent, offset) ==
  CASE node.type_ = "Null" -> [exc |-> NoExc, out |-> TextNull]
    [] node.type_ = "Boolean" -> [exc |-> NoExc, out |-> dumpBoolean(node.bool_)]
    [] node.type_ = "Integer" -> [exc |-> NoExc, out |-> dumpInteger(node.int_)]
    [] node.type_ = "FloatingPoint" -> dumpFloat(node.float_)
    [] node.type_ = "String" -> [exc |-> NoExc, out |-> dumpString(node.str_)]
    [] node.type_ = "Sequence" -> dumpSequence(node, indent, offset)
    [] node.type_ = "Map" -> dumpMap(node, indent, offset)

\* JsonExport::dump: JSON always starts with an object
dump(node, indent) ==
  IF node.type_ # "Map" THEN [exc |-> TypeExceptionNoNode, out |-> <<>>]
  ELSE dumpNode(node, indent, 0)

----------------------------------------------------------------------------
(* JsonImport: the reader is the index of the next byte of the stream, the
   line and the position, the next node identifier, the parse marks and the
   exception thrown; once an exception is thrown every further step of the
   reader leaves it as it is *)

NewReader(next) ==
  [at |-> 1, line_ |-> 1, pos_ |-> 1, next |-> next, parseinfo_ |-> {},
   exc |-> NoExc]

\* the importer after a call of load that left the reader p, returned or thrown
Imported(p) ==
  [strm_ |-> "last", line_ |-> p.line_, pos_ |-> p.pos_,
   parseinfo_ |-> p.parseinfo_]

\* the outcomes of strm_ != &strm in load(const String&), whose stream is a
\* local std::stringstream: strm_ still holds the address of the stream of
\* the call before, which was destroyed, and the new stream may or may not
\* have been given that address
StreamChanged(importer) ==
  IF importer.strm_ = "nullptr" THEN {TRUE} ELSE BOOLEAN

\* the reader load starts with: line_, pos_ and parseinfo_ are reset only
\* when the stream changed
StartReader(importer, changed, next) ==
  IF changed THEN NewReader(next)
  ELSE [at |-> 1, line_ |-> importer.line_, pos_ |-> importer.pos_,
        next |-> next, parseinfo_ |-> importer.parseinfo_, exc |-> NoExc]

Failed(p) == p.exc.kind # "none"

\* JsonImport::raise
raise(p) == IF Failed(p) THEN p ELSE [p EXCEPT !.exc = ImportException]

Throw(p, e) == IF Failed(p) THEN p ELSE [p EXCEPT !.exc = e]

isDigit(c) == c >= Ch.zero /\ c <= Ch.nine

isNonzeroDigit(c) == c > Ch.zero /\ c <= Ch.nine

isWhitespace(c) == c \in {Ch.space, Ch.tab, Ch.newline, Ch.return}

updateInteger(integer, c) == Add64(Mul10(integer), I64(c - Ch.zero))

\* JsonImport::peek: the next byte, not consumed
peek(strm, p) ==
  IF Failed(p) THEN [p |-> p, c |-> 0]
  ELSE IF p.at > Len(strm) THEN [p |-> raise(p), c |-> 0]
  ELSE [p |-> p, c |-> strm[p.at]]

\* JsonImport::read: pos_ is advanced before the end of the stream is detected
read(strm, p) ==
  IF Failed(p) THEN [p |-> p, c |-> 0]
  ELSE IF p.at > Len(strm) THEN [p |-> raise([p EXCEPT !.pos_ = @ + 1]), c |-> 0]
  ELSE LET c == strm[p.at]
       IN [p |-> [p EXCEPT !.at = @ + 1,
                           !.line_ = IF c = Ch.newline THEN @ + 1 ELSE @,
                           !.pos_ = IF c = Ch.newline THEN 1 ELSE @ + 1],
           c |-> c]

RECURSIVE skipWs(_, _)
skipWs(strm, p) ==
  IF Failed(p) \/ p.at > Len(strm) THEN p
  ELSE IF ~isWhitespace(strm[p.at]) THEN p
  ELSE skipWs(strm, read(strm, p).p)

currentMark(p) == [line_ |-> p.line_, pos_ |-> p.pos_]

\* std::map::insert keeps the mark an identifier already has
registerNode(p, node, mark) ==
  IF Failed(p) \/ \E m \in p.parseinfo_ : m.id_ = node.id_ THEN p
  ELSE [p EXCEPT !.parseinfo_ =
          @ \cup {[id_ |-> node.id_, line_ |-> mark.line_, pos_ |-> mark.pos_]}]

\* a node made by the reader takes the next identifier
Made(p, node, mark) ==
  IF Failed(p) THEN [p |-> p, node |-> NodeNull(NoNodeId)]
  ELSE [p |-> registerNode([p EXCEPT !.next = @ + 1], node, mark), node |-> node]

\* read() != w[1] || read() != w[2] || ...: reading stops at the first mismatch
RECURSIVE Expect(_, _, _)
Expect(strm, p, word) ==
  IF Failed(p) \/ word = <<>> THEN p
  ELSE LET r == read(strm, p)
       IN IF Failed(r.p) THEN r.p
          ELSE IF r.c # word[1] THEN raise(r.p)
          ELSE Expect(strm, r.p, Tail(word))

loadNull(strm, p) ==
  LET q == skipWs(strm, Expect(strm, p, TextNull))
  IN Made(q, NodeNull(q.next), currentMark(p))

loadTrue(strm, p) ==
  LET q == skipWs(strm, Expect(strm, p, TextTrue))
  IN Made(q, NodeBool(TRUE, q.next), currentMark(p))

loadFalse(strm, p) ==
  LET q == skipWs(strm, Expect(strm, p, TextFalse))
  IN Made(q, NodeBool(FALSE, q.next), currentMark(p))

\* the value of a hexadecimal digit, 16 for any other byte
HexValue(c) ==
  IF c >= Ch.zero /\ c <= Ch.nine THEN c - Ch.zero
  ELSE IF c >= Ch.a /\ c <= Ch.f THEN c - Ch.a + 10
  ELSE IF c >= Ch.A /\ c <= Ch.F THEN c - Ch.A + 10
  ELSE 16

\* JsonImport::parseCharacter from digit i on
RECURSIVE parseCharacterLoop(_, _, _, _)
parseCharacterLoop(strm, p, val, i) ==
  IF Failed(p) \/ i >= 4 THEN [p |-> p, val |-> val]
  ELSE LET r == read(strm, p)
       IN IF Failed(r.p) THEN [p |-> r.p, val |-> val]
          ELSE IF HexValue(r.c) = 16 THEN [p |-> raise(r.p), val |-> val]
          ELSE parseCharacterLoop(strm, r.p, ((val * 16) % 65536) + HexValue(r.c), i + 1)

parseCharacter(strm, p) == parseCharacterLoop(strm, p, 0, 0)

\* the bytes appended for the code point cp
Utf8(cp) ==
  IF cp <= 127 THEN <<cp % 128>>
  ELSE IF cp <= 2047 THEN <<((cp \div 64) % 32) + 192, (cp % 64) + 128>>
  ELSE <<((cp \div 4096) % 16) + 224, ((cp \div 64) % 64) + 128, (cp % 64) + 128>>

\* the byte an escape letter stands for, 256 for a letter that is no escape
Unescaped(c) ==
  CASE c = Ch.quote -> Ch.quote
    [] c = Ch.backslash -> Ch.backslash
    [] c = Ch.slash -> Ch.slash
    [] c = Ch.b -> Ch.backspace
    [] c = Ch.f -> Ch.formfeed
    [] c = Ch.n -> Ch.newline
    [] c = Ch.r -> Ch.return
    [] c = Ch.t -> Ch.tab
    [] OTHER -> 256

\* the while loop of parseString; acc holds the reader and str
RECURSIVE parseStringLoop(_, _, _)
parseStringLoop(strm, acc, escape) ==
  LET r == read(strm, acc.p)
  IN IF Failed(r.p) THEN [p |-> r.p, str |-> acc.str]
     ELSE IF escape
     THEN IF Unescaped(r.c) # 256
          THEN parseStringLoop(strm,
                               [p |-> r.p, str |-> Append(acc.str, Unescaped(r.c))],
                               FALSE)
          ELSE IF r.c = Ch.u
          THEN LET cp == parseCharacter(strm, r.p)
               IN parseStringLoop(strm,
                                  [p |-> cp.p, str |-> acc.str \o Utf8(cp.val)],
                                  FALSE)
          ELSE [p |-> raise(r.p), str |-> acc.str]
     ELSE IF r.c = Ch.quote THEN [p |-> skipWs(strm, r.p), str |-> acc.str]
     ELSE IF r.c = Ch.backslash
     THEN parseStringLoop(strm, [p |-> r.p, str |-> acc.str], TRUE)
     ELSE parseStringLoop(strm, [p |-> r.p, str |-> Append(acc.str, r.c)], FALSE)

parseString(strm, p) ==
  LET r == read(strm, p)
  IN IF Failed(r.p) THEN [p |-> r.p, str |-> <<>>]
     ELSE IF r.c # Ch.quote THEN [p |-> raise(r.p), str |-> <<>>]
     ELSE parseStringLoop(strm, [p |-> r.p, str |-> <<>>], FALSE)

\* the String node of the text parseString returned
loadStringMade(s, mark) == Made(s.p, NodeString(s.str, s.p.next), mark)

loadString(strm, p) == loadStringMade(parseString(strm, p), currentMark(p))

\* the loops of loadNumber over digits; acc holds the reader, the byte c
\* peeked last, integer, which is updated only in the integer part, and
\* number_str, the bytes consumed
RECURSIVE digitsLoop(_, _, _)
digitsLoop(strm, acc, update) ==
  LET k == peek(strm, acc.p)
  IN IF Failed(k.p) \/ ~isDigit(k.c) THEN [acc EXCEPT !.p = k.p, !.c = k.c]
     ELSE digitsLoop(strm,
                     [p |-> read(strm, k.p).p, c |-> k.c,
                      integer |-> IF update THEN updateInteger(acc.integer, k.c)
                                  ELSE acc.integer,
                      number_str |-> Append(acc.number_str, k.c)],
                     update)

\* n / 10^k as a binary fraction m * 2^e, when 5^k divides n
RECURSIVE Dyadic(_, _, _)
Dyadic(n, k, e) ==
  IF k = 0 THEN [ok |-> TRUE, mant |-> n, exp |-> e]
  ELSE IF DivMod64(n, 5).rem # 0 THEN [ok |-> FALSE, mant |-> n, exp |-> e]
  ELSE Dyadic(DivMod64(n, 5).quot, k - 1, e - 1)

\* the digits of number_str from index i on as an integer and the number of
\* digits behind the dot
RECURSIVE Decimal(_, _, _, _, _)
Decimal(number_str, i, n, k, behind) ==
  IF i > Len(number_str) THEN [ok |-> TRUE, n |-> n, k |-> k]
  ELSE IF number_str[i] = Ch.dot THEN Decimal(number_str, i + 1, n, k, TRUE)
  ELSE IF ~isDigit(number_str[i]) \/ ~ULess(n, I64(1000000))
  THEN [ok |-> FALSE, n |-> n, k |-> k]
  ELSE Decimal(number_str, i + 1, updateInteger(n, number_str[i]),
               IF behind THEN k + 1 ELSE k, behind)

\* the index of the e or E of number_str, 0 when it has none
ExponentAt(number_str) ==
  IF \A i \in 1..Len(number_str) : number_str[i] \notin {Ch.e, Ch.E} THEN 0
  ELSE CHOOSE i \in 1..Len(number_str) : number_str[i] \in {Ch.e, Ch.E}

\* the value of the exponent digits of number_str from index i on
RECURSIVE ExponentDigits(_, _, _)
ExponentDigits(number_str, i, x) ==
  IF i > Len(number_str) THEN x
  ELSE ExponentDigits(number_str, i + 1, x * 10 + (number_str[i] - Ch.zero))

\* the signed exponent that follows the e at index at, 0 when at is 0
ExponentOf(number_str, at) ==
  IF at = 0 THEN 0
  ELSE IF number_str[at + 1] = Ch.minus
  THEN 0 - ExponentDigits(number_str, at + 2, 0)
  ELSE IF number_str[at + 1] = Ch.plus
  THEN ExponentDigits(number_str, at + 2, 0)
  ELSE ExponentDigits(number_str, at + 1, 0)

\* n * 5^k modulo 2^64
RECURSIVE TimesPow5(_, _)
TimesPow5(n, k) ==
  IF k = 0 THEN n ELSE TimesPow5(Add64(ScaleUp(n, 2), n), k - 1)

\* n * 10^x / 10^k as a double, for n below 10^7
stodScaled(neg, d, x) ==
  IF ~d.ok \/ Len(x) # 1 \/ x[1] - d.k > 12
  THEN [exc |-> NotModelled, value |-> FZero]
  ELSE IF x[1] >= d.k
  THEN [exc |-> NoExc,
        value |-> FNormal(neg, TimesPow5(d.n, x[1] - d.k), x[1] - d.k)]
  ELSE IF Dyadic(d.n, d.k - x[1], 0).ok
  THEN [exc |-> NoExc,
        value |-> FNormal(neg, Dyadic(d.n, d.k - x[1], 0).mant,
                          Dyadic(d.n, d.k - x[1], 0).exp)]
  ELSE [exc |-> NotModelled, value |-> FZero]

stodParts(number_str, neg, at) ==
  stodScaled(neg,
             Decimal(IF at = 0 THEN number_str ELSE SubSeq(number_str, 1, at - 1),
                     IF neg THEN 2 ELSE 1, Zero64, 0, FALSE),
             <<ExponentOf(number_str, at)>>)

\* std::stod of the text loadNumber collected: covered for texts of at most
\* seven digits and an exponent of at most three, whose value is a double
stod(number_str) ==
  IF ExponentAt(number_str) # 0
     /\ Len(number_str) - ExponentAt(number_str) > 4
  THEN [exc |-> NotModelled, value |-> FZero]
  ELSE stodParts(number_str, number_str[1] = Ch.minus, ExponentAt(number_str))

\* loadNumber, the end: whitespace is skipped and the node is made of integer
\* or of std::stod(number_str)
loadNumberFloat(q, value, mark) ==
  IF value.exc.kind # "none"
  THEN [p |-> Throw(q, value.exc), node |-> NodeNull(NoNodeId)]
  ELSE Made(q, NodeFloat(value.value, q.next), mark)

loadNumberMade(strm, p, is_negative, is_float, expo) ==
  LET q == skipWs(strm, expo.p)
  IN IF Failed(q) THEN [p |-> q, node |-> NodeNull(NoNodeId)]
     ELSE IF is_float THEN loadNumberFloat(q, stod(expo.number_str), currentMark(p))
     ELSE IF is_negative
     THEN Made(q, NodeInt(Neg64(expo.integer), q.next), currentMark(p))
     ELSE Made(q, NodeUnsigned(expo.integer, q.next), currentMark(p))

\* loadNumber, the exponent part
loadNumberExponent(strm, p, is_negative, has_fraction, frac) ==
  LET has_exponent == ~Failed(frac.p) /\ frac.c \in {Ch.e, Ch.E}
      after == read(strm, read(strm, frac.p).p)
      signed == after.c \in {Ch.plus, Ch.minus}
      digit == IF signed THEN read(strm, after.p) ELSE after
      str1 == frac.number_str \o <<frac.c, after.c>>
              \o (IF signed THEN <<digit.c>> ELSE <<>>)
  IN loadNumberMade(strm, p, is_negative, has_fraction \/ has_exponent,
       IF ~has_exponent THEN frac
       ELSE IF Failed(digit.p) \/ ~isDigit(digit.c)
       THEN [p |-> raise(digit.p), c |-> 0, integer |-> frac.integer,
             number_str |-> str1]
       ELSE digitsLoop(strm,
                       [p |-> digit.p, c |-> digit.c,
                        integer |-> frac.integer, number_str |-> str1],
                       FALSE))

\* loadNumber, the fraction part
loadNumberFraction(strm, p, is_negative, whole) ==
  LET has_fraction == ~Failed(whole.p) /\ whole.c = Ch.dot
  IN loadNumberExponent(strm, p, is_negative, has_fraction,
       IF has_fraction
       THEN digitsLoop(strm,
                       [whole EXCEPT !.p = read(strm, whole.p).p,
                                     !.number_str = Append(@, whole.c)],
                       FALSE)
       ELSE whole)

\* loadNumber, the integer part: str0 holds the sign and the first digit
loadNumberWhole(strm, p, is_negative, str0, lead) ==
  loadNumberFraction(strm, p, is_negative,
    IF Failed(lead.p)
    THEN [p |-> lead.p, c |-> 0, integer |-> Zero64, number_str |-> str0]
    ELSE IF lead.c = Ch.zero
    THEN [p |-> peek(strm, lead.p).p, c |-> peek(strm, lead.p).c,
          integer |-> Zero64, number_str |-> str0]
    ELSE IF isNonzeroDigit(lead.c)
    THEN digitsLoop(strm,
                    [p |-> lead.p, c |-> lead.c,
                     integer |-> updateInteger(Zero64, lead.c),
                     number_str |-> str0], TRUE)
    ELSE [p |-> raise(lead.p), c |-> 0, integer |-> Zero64,
          number_str |-> str0])

\* loadNumber, the sign
loadNumberSign(strm, p, first, lead) ==
  loadNumberWhole(strm, p, first.c = Ch.minus,
                  IF first.c = Ch.minus THEN <<first.c, lead.c>> ELSE <<first.c>>,
                  lead)

loadNumberLead(strm, p, first) ==
  loadNumberSign(strm, p, first,
                 IF first.c = Ch.minus THEN read(strm, first.p) ELSE first)

loadNumber(strm, p) == loadNumberLead(strm, p, read(strm, p))

RECURSIVE loadValue(_, _)
RECURSIVE loadSequenceLoop(_, _, _)
RECURSIVE loadMapLoop(_, _, _)

\* the content loop of loadSequence after the value v is loaded
loadSequenceAfter(strm, v, seq) ==
  LET k == peek(strm, v.p)
  IN IF Failed(k.p) THEN [p |-> k.p, seq |-> seq]
     ELSE IF k.c = Ch.rbracket THEN [p |-> k.p, seq |-> Append(seq, v.node)]
     ELSE IF k.c = Ch.comma
     THEN loadSequenceLoop(strm, skipWs(strm, read(strm, k.p).p), Append(seq, v.node))
     ELSE [p |-> raise(k.p), seq |-> seq]

\* the content loop of loadSequence
loadSequenceLoop(strm, p, seq) == loadSequenceAfter(strm, loadValue(strm, p), seq)

\* loadSequence from the closing bracket on
loadSequenceClose(strm, p, body) ==
  LET q == skipWs(strm, read(strm, body.p).p)
  IN Made(q, NodeSequence(body.seq, q.next), currentMark(p))

loadSequence(strm, p) ==
  LET k == peek(strm, skipWs(strm, read(strm, p).p))
  IN loadSequenceClose(strm, p,
       IF Failed(k.p) \/ k.c = Ch.rbracket THEN [p |-> k.p, seq |-> <<>>]
       ELSE loadSequenceLoop(strm, k.p, <<>>))

\* the content loop of loadMap after the value v of the key is loaded
loadMapAfter(strm, key, v, map) ==
  LET k == peek(strm, v.p)
  IN IF Failed(k.p) THEN [p |-> k.p, map |-> map]
     ELSE IF k.c = Ch.rbrace
     THEN [p |-> k.p, map |-> Append(map, MapEntry(key, v.node))]
     ELSE IF k.c = Ch.comma
     THEN loadMapLoop(strm, skipWs(strm, read(strm, k.p).p),
                      Append(map, MapEntry(key, v.node)))
     ELSE [p |-> raise(k.p), map |-> map]

\* the content loop of loadMap after the key is parsed
loadMapValue(strm, key, map) ==
  LET colon == read(strm, key.p)
  IN loadMapAfter(strm, key.str,
       loadValue(strm, IF Failed(colon.p) THEN colon.p
                       ELSE IF colon.c # Ch.colon THEN raise(colon.p)
                       ELSE skipWs(strm, colon.p)),
       map)

\* the content loop of loadMap
loadMapLoop(strm, p, map) == loadMapValue(strm, parseString(strm, p), map)

\* Node node(map) sorts the pairs and throws Exception when a key repeats
loadMapMade(p, q, made) ==
  IF Failed(q) THEN [p |-> q, node |-> NodeNull(NoNodeId)]
  ELSE IF made.exc.kind # "none"
  THEN [p |-> Throw([q EXCEPT !.next = @ + 1], made.exc),
        node |-> NodeNull(NoNodeId)]
  ELSE Made(q, made.node, currentMark(p))

\* loadMap from the closing brace on
loadMapClose(strm, p, body) ==
  LET q == skipWs(strm, read(strm, body.p).p)
  IN loadMapMade(p, q, NodeMap(body.map, q.next))

loadMap(strm, p) ==
  LET k == peek(strm, skipWs(strm, read(strm, p).p))
  IN loadMapClose(strm, p,
       IF Failed(k.p) \/ k.c = Ch.rbrace THEN [p |-> k.p, map |-> <<>>]
       ELSE loadMapLoop(strm, k.p, <<>>))

loadValue(strm, p) ==
  LET k == peek(strm, p)
  IN IF Failed(k.p) THEN [p |-> k.p, node |-> NodeNull(NoNodeId)]
     ELSE IF k.c = Ch.quote THEN loadString(strm, p)
     ELSE IF k.c = Ch.lbracket THEN loadSequence(strm, p)
     ELSE IF k.c = Ch.lbrace THEN loadMap(strm, p)
     ELSE IF k.c = Ch.t THEN loadTrue(strm, p)
     ELSE IF k.c = Ch.f THEN loadFalse(strm, p)
     ELSE IF k.c = Ch.n THEN loadNull(strm, p)
     ELSE IF k.c = Ch.minus \/ isDigit(k.c) THEN loadNumber(strm, p)
     ELSE [p |-> raise(k.p), node |-> NodeNull(NoNodeId)]

\* JsonImport::load after line_, pos_ and parseinfo_ were reset or kept
loadStart(strm, p, k) ==
  IF Failed(k.p) THEN [p |-> k.p, node |-> NodeNull(NoNodeId)]
  ELSE IF k.c # Ch.lbrace THEN [p |-> raise(k.p), node |-> NodeNull(NoNodeId)]
  ELSE loadMap(strm, p)

loadSkipped(strm, p) == loadStart(strm, p, peek(strm, p))

loadFrom(strm, reader) == loadSkipped(strm, skipWs(strm, reader))

\* JsonImport::load of a stream the importer has not read before
load(strm, next) == loadFrom(strm, NewReader(next))

----------------------------------------------------------------------------
(* the codec: a Node is dumped with an indent, the text is loaded again *)

MaxIndent == 2

\* the node with fresh identifiers, taken in the order of construction
RECURSIVE Renumber(_, _)
RECURSIVE RenumberSeq(_, _, _)
RECURSIVE RenumberMap(_, _, _)
RenumberSeq(seq, id, done) ==
  IF seq = <<>> THEN [nodes |-> done, next |-> id]
  ELSE LET r == Renumber(seq[1], id)
       IN RenumberSeq(Tail(seq), r.next, Append(done, r.node))

RenumberMap(map, id, done) ==
  IF map = <<>> THEN [nodes |-> done, next |-> id]
  ELSE LET r == Renumber(map[1].second, id)
       IN RenumberMap(Tail(map), r.next, Append(done, MapEntry(map[1].first, r.node)))

Renumber(node, id) ==
  IF node.type_ = "Sequence"
  THEN LET r == RenumberSeq(node.seq_, id, <<>>)
       IN [node |-> [node EXCEPT !.seq_ = r.nodes, !.id_ = r.next], next |-> r.next + 1]
  ELSE IF node.type_ = "Map"
  THEN LET r == RenumberMap(node.map_, id, <<>>)
       IN [node |-> [node EXCEPT !.map_ = r.nodes, !.id_ = r.next], next |-> r.next + 1]
  ELSE [node |-> [node EXCEPT !.id_ = id], next |-> id + 1]

\* a key of a quote and a backslash
KeyQuote == <<34, 92>>

\* a"b\ followed by a newline and the byte 200
MixedString == <<97, 34, 98, 92, 10, 200>>

JsonStrings ==
  {<<>>, KeyA, MixedString, <<92, 34>>, <<92, 117, 48, 48, 52, 49>>}
  \cup {<<c>> : c \in {0, 8, 9, 10, 12, 13, 31, 32, 34, 47, 92, 127, 128, 255}}

JsonInts ==
  {Zero64, One64, I64(0 - 1), I64(10), I64(0 - 120), Pow53,
   <<12345, 67890, 1234567>>, Neg64(<<12345, 67890, 1234567>>),
   IntMax64, IntMin64}

JsonScalars ==
  {NodeNull(0), NodeBool(TRUE, 0), NodeBool(FALSE, 0)}
  \cup {NodeInt(i, 0) : i \in JsonInts}
  \cup {NodeString(str, 0) : str \in JsonStrings}
  \cup {NodeFloat(f, 0) :
          f \in {FOneHalf, FNormal(TRUE, Two64, 0), FloatOfInt(I64(1000000)),
                 FNormal(TRUE, I64(78125), 5)}}

JsonContainers ==
  {NodeSequence(<<>>, 0),
   NodeSequence(<<NodeInt(One64, 0), NodeString(<<34>>, 0)>>, 0),
   NodeMap(<<>>, 0).node,
   NodeMap(<<MapEntry(KeyA, NodeNull(0))>>, 0).node,
   NodeSequence(<<NodeSequence(<<>>, 0),
                  NodeMap(<<MapEntry(KeyQuote, NodeInt(IntMin64, 0))>>, 0).node>>, 0)}

JsonValues == JsonScalars \cup JsonContainers

\* the values of the maps of two pairs
PairValues ==
  {NodeNull(0), NodeInt(IntMin64, 0), NodeString(MixedString, 0)}
  \cup JsonContainers

JsonNodes ==
  {Renumber(n, 0).node :
     n \in {NodeInt(One64, 0), NodeSequence(<<>>, 0)}
           \cup {NodeMap(<<MapEntry(k, v)>>, 0).node :
                   k \in {<<>>, KeyA, KeyQuote}, v \in JsonValues}
           \cup {NodeMap(<<MapEntry(KeyQuote, v), MapEntry(KeyA, w)>>, 0).node :
                   v \in PairValues, w \in PairValues}}

InitJson ==
  /\ self \in JsonNodes
  /\ indent_ \in 0..MaxIndent
  /\ other = NodeNull(NoNodeId)
  /\ s_id_ = Renumber(self, 0).next
  /\ pc = "dump"
  /\ steps = 0
  /\ op = "Init"
  /\ exc = NoExc
  /\ ret = currentMark(NewReader(0))
  /\ prev = self
  /\ validator = 0
  /\ objs = <<>>
  /\ heap = <<>>
  /\ args = <<>>
  /\ ids = <<>>
  /\ text = <<>>
  /\ json_import = JsonImport

\* text = json_export.dump(self)
Dump ==
  /\ pc = "dump"
  /\ LET d == dump(self, indent_)
     IN /\ text' = d.out
        /\ exc' = d.exc
        /\ pc' = IF d.exc.kind = "none" THEN "load" ELSE "done"
  /\ op' = "dump"
  /\ prev' = self
  /\ UNCHANGED <<self, other, s_id_, steps, ret, validVars, callVars, indent_,
                 json_import>>

\* other = json_import.load(text); ret is the line and position reached
Load ==
  /\ pc = "load"
  /\ LET l == load(text, s_id_)
     IN /\ other' = IF Failed(l.p) THEN other ELSE l.node
        /\ exc' = l.p.exc
        /\ s_id_' = l.p.next
        /\ ret' = currentMark(l.p)
        /\ json_import' = Imported(l.p)
  /\ pc' = "done"
  /\ op' = "load"
  /\ prev' = self
  /\ UNCHANGED <<self, steps, validVars, callVars, text, indent_>>

NextJson ==
  \/ Dump
  \/ Load

SpecJson == InitJson /\ [][NextJson]_vars

\* no FloatingPoint node at any depth
RECURSIVE NoFloat(_)
NoFloat(n) ==
  CASE n.type_ = "FloatingPoint" -> FALSE
    [] n.type_ = "Sequence" -> \A i \in 1..Len(n.seq_) : NoFloat(n.seq_[i])
    [] n.type_ = "Map" -> \A i \in 1..Len(n.map_) : NoFloat(n.map_[i].second)
    [] OTHER -> TRUE

\* the strings at any depth of n, keys included
RECURSIVE StringsOf(_)
StringsOf(n) ==
  CASE n.type_ = "String" -> {n.str_}
    [] n.type_ = "Sequence" -> UNION {StringsOf(n.seq_[i]) : i \in 1..Len(n.seq_)}
    [] n.type_ = "Map" ->
         UNION {{n.map_[i].first} \cup StringsOf(n.map_[i].second) :
                  i \in 1..Len(n.map_)}
    [] OTHER -> {}

(* C4: for every Map node built of Null, Boolean, Integer, String, Sequence
   and Map values, with strings of any bytes and integers of the whole signed
   range, and for every indent, the dump succeeds, the load of the dumped
   text succeeds and the loaded node equals the node under operator==. *)
C4_JsonRoundTrip ==
  (pc = "done" /\ self.type_ = "Map" /\ NoFloat(self))
    => (op = "load" /\ exc.kind = "none" /\ NodeEq(other, self))

\* a map dumped with an indent and loaded again that holds the smallest
\* Integer and a string with a quote, a backslash, a newline and a byte
\* above 127
C4_Witness_EscapesAndMinInt ==
  /\ op = "load"
  /\ indent_ > 0
  /\ exc.kind = "none"
  /\ NodeEq(other, self)
  /\ Len(self.map_) = 2
  /\ \E i \in 1..2 : self.map_[i].second = NodeInt(IntMin64, self.map_[i].second.id_)
  /\ MixedString \in StringsOf(self)
  /\ KeyQuote \in StringsOf(self)

\* self is a map of one entry whose value is a FloatingPoint
FloatEntry(n) ==
  /\ n.type_ = "Map"
  /\ Len(n.map_) = 1
  /\ n.map_[1].second.type_ = "FloatingPoint"

(* C24: for every map of one finite FloatingPoint value whose text the model
   covers, the dump succeeds and the load of the dumped text succeeds and
   yields a map whose value is a FloatingPoint, whole values that operator<<
   writes in exponent notation included. *)
C24_FloatTextReadsBack ==
  (pc = "done" /\ FloatEntry(self) /\ exc.kind # "NotModelled")
    => /\ op = "load"
       /\ exc.kind = "none"
       /\ FloatEntry(other)


----------------------------------------------------------------------------
(* construction: Map nodes are constructed from lists of pairs and loaded
   from JSON texts that were not written by the exporter *)

MaxConstructs == 2

\* lists of one to three keys, keys repeated or not
KeyLists == ListsUpTo({KeyA, KeyB}, 3) \ {<<>>}

ConstructValues == <<LitScalar("one"), LitScalar("true"), LitScalar("null")>>

\* Map({ {key, value}, ... }), and a Map whose inner Map repeats a key
ConstructLits ==
  {LitMap(ks, SubSeq(ConstructValues, 1, Len(ks))) : ks \in KeyLists}
  \cup {LitMap(<<>>, <<>>),
        LitMap(<<KeyA>>, <<LitMap(<<KeyB, KeyB>>, <<LitScalar("one"), LitScalar("two")>>)>>),
        LitMap(<<KeyB, KeyA>>, <<LitSeq(<<LitScalar("one")>>), LitMap(<<KeyA>>, <<LitScalar("null")>>)>>)}

\* some map literal of lit, at any depth, lists a key more than once
RECURSIVE RepeatsKey(_)
RepeatsKey(lit) ==
  \/ lit.k = "map" /\ \E i, j \in 1..Len(lit.keys) : i # j /\ lit.keys[i] = lit.keys[j]
  \/ \E i \in 1..Len(lit.vals) : RepeatsKey(lit.vals[i])

\* {"a":1,"a":true}
TextRepeatedAdjacent ==
  <<123, 34, 97, 34, 58, 49, 44, 34, 97, 34, 58, 116, 114, 117, 101, 125>>

\* {"a":1,"b":2,"a":3}
TextRepeatedApart ==
  <<123, 34, 97, 34, 58, 49, 44, 34, 98, 34, 58, 50, 44, 34, 97, 34, 58, 51,
    125>>

\* {"a":null,"b":{"c":1,"c":2}}
TextRepeatedNested ==
  <<123, 34, 97, 34, 58, 110, 117, 108, 108, 44, 34, 98, 34, 58, 123, 34,
    99, 34, 58, 49, 44, 34, 99, 34, 58, 50, 125, 125>>

\* {"b":1,"a":2}
TextUnsorted ==
  <<123, 34, 98, 34, 58, 49, 44, 34, 97, 34, 58, 50, 125>>

\* four lines: {, "b": [1, "x"], and "a": {"k": null} indented by two
\* spaces, }
TextLines ==
  <<123, 10, 32, 32, 34, 98, 34, 58, 32, 91, 49, 44, 32, 34, 120, 34, 93,
    44, 10, 32, 32, 34, 97, 34, 58, 32, 123, 34, 107, 34, 58, 32, 110, 117,
    108, 108, 125, 10, 125>>

TextsRepeated == {TextRepeatedAdjacent, TextRepeatedApart, TextRepeatedNested}

JsonTexts == TextsRepeated \cup {TextUnsorted, TextLines}

InitConstruct ==
  /\ self = NodeNull(0)
  /\ other = NodeNull(NoNodeId)
  /\ s_id_ = 1
  /\ pc = "construct"
  /\ steps = 0
  /\ op = "Init"
  /\ exc = NoExc
  /\ ret = {}
  /\ prev = NodeNull(0)
  /\ validator = 0
  /\ objs = <<>>
  /\ heap = <<>>
  /\ args = <<>>
  /\ ids = <<>>
  /\ text = <<>>
  /\ json_import = JsonImport
  /\ indent_ = 0

\* self = Map({ ... }): when the constructor throws, self keeps its value
ConstructMap ==
  /\ pc = "construct"
  /\ steps < MaxConstructs
  /\ steps' = steps + 1
  /\ \E lit \in ConstructLits :
       LET b == Build(lit, s_id_)
       IN /\ self' = IF b.exc.kind = "none" THEN b.node ELSE self
          /\ s_id_' = b.next
          /\ exc' = b.exc
          /\ args' = <<lit>>
  /\ op' = "ConstructMap"
  /\ ret' = {}
  /\ prev' = self
  /\ UNCHANGED <<other, pc, validVars, codecVars, ids>>

\* self = json_import.load(str); ret is parseinfo()
LoadText ==
  /\ pc = "construct"
  /\ steps < MaxConstructs
  /\ steps' = steps + 1
  /\ \E str \in JsonTexts : \E changed \in StreamChanged(json_import) :
       LET l == loadFrom(str, StartReader(json_import, changed, s_id_))
       IN /\ self' = IF Failed(l.p) THEN self ELSE l.node
          /\ s_id_' = l.p.next
          /\ exc' = l.p.exc
          /\ ret' = l.p.parseinfo_
          /\ json_import' = Imported(l.p)
          /\ args' = <<str, changed>>
  /\ op' = "LoadText"
  /\ prev' = self
  /\ UNCHANGED <<other, pc, validVars, text, indent_, ids>>

NextConstruct ==
  \/ ConstructMap
  \/ LoadText

SpecConstruct == InitConstruct /\ [][NextConstruct]_vars

(* C13: constructing a Map node from a list of pairs in which a key occurs
   more than once always fails with an exception and yields no Map, neither
   one that keeps one of the values nor one that holds both; so does
   JsonImport::load of an object text that repeats a key. *)
C13_RepeatedKeyThrows ==
  /\ (op = "ConstructMap" /\ RepeatsKey(args[1]))
       => (exc.kind = "Exception" /\ self = prev)
  /\ (op = "LoadText" /\ args[1] \in TextsRepeated)
       => (exc.kind = "Exception" /\ self = prev)

\* a text whose repeated key is not adjacent before sorting was refused after
\* a Map had been constructed, and the Map is still there
C13_Witness_RepeatedApart ==
  /\ op = "LoadText"
  /\ args[1] = TextRepeatedApart
  /\ exc.kind = "Exception"
  /\ self.type_ = "Map"
  /\ Len(self.map_) = 2
  /\ self = prev

\* the nodes of the tree n
RECURSIVE NodesOf(_)
NodesOf(n) ==
  {n} \cup UNION {NodesOf(n.seq_[i]) : i \in 1..Len(n.seq_)}
      \cup UNION {NodesOf(n.map_[i].second) : i \in 1..Len(n.map_)}

\* the 1-based line and column of the byte at index k of str
LineOf(str, k) == 1 + Cardinality({i \in 1..(k - 1) : str[i] = Ch.newline})

ColumnOf(str, k) ==
  Cardinality({i \in 1..k : \A j \in i..(k - 1) : str[j] # Ch.newline})

\* the bytes the JSON text of a node can begin with
FirstBytes(n) ==
  CASE n.type_ = "Null" -> {Ch.n}
    [] n.type_ = "Boolean" -> {Ch.t, Ch.f}
    [] n.type_ \in {"Integer", "FloatingPoint"} -> {Ch.minus} \cup (Ch.zero..Ch.nine)
    [] n.type_ = "String" -> {Ch.quote}
    [] n.type_ = "Sequence" -> {Ch.lbracket}
    [] n.type_ = "Map" -> {Ch.lbrace}

\* the indexes in str, from lo on, that the mark of node n in marks points at
\* and where a text of n's tag begins
StartsOf(n, str, marks, lo) ==
  {k \in lo..Len(str) :
     /\ str[k] \in FirstBytes(n)
     /\ \E m \in marks :
          m.id_ = n.id_ /\ m.line_ = LineOf(str, k) /\ m.pos_ = ColumnOf(str, k)}

\* every node of the tree n is marked at the beginning of a text of its tag
\* from lo on, a child inside its container and the elements of a Sequence
\* one after the other
RECURSIVE Marked(_, _, _, _)
RECURSIVE MarkedInOrder(_, _, _, _)
MarkedInOrder(seq, str, marks, lo) ==
  seq = <<>> \/
  \E k \in StartsOf(seq[1], str, marks, lo) :
     /\ Marked(seq[1], str, marks, k)
     /\ MarkedInOrder(Tail(seq), str, marks, k + 1)

Marked(n, str, marks, lo) ==
  \E k \in StartsOf(n, str, marks, lo) :
     /\ MarkedInOrder(n.seq_, str, marks, k + 1)
     /\ \A i \in 1..Len(n.map_) : Marked(n.map_[i].second, str, marks, k + 1)

(* C20: after a successful JsonImport.load every node of the returned tree,
   the top-level Map, every nested container and every scalar, has an entry
   in parseinfo() under its identifier, and the entry holds the 1-based line
   and column of the first character of the node's text, where the line
   increases by one and the column restarts at 1 after each newline. *)
C20_ParseMarks ==
  (op = "LoadText" /\ exc.kind = "none")
    => /\ \A n \in NodesOf(self) : \E m \in ret : m.id_ = n.id_
       /\ Marked(self, args[1], ret, 1)
       /\ \A k \in StartsOf(self, args[1], ret, 1) :
            \A i \in 1..(k - 1) : isWhitespace(args[1][i])

----------------------------------------------------------------------------
(* identity: two nodes are assigned values, copied, moved and swapped; ids
   holds, per thread, the identifiers its value constructions were given *)

MaxCopies == 3

MainThread == "main"

\* faulty variant: the copy is given an identifier of its own
NodeCopy_NewId(othr) == [othr EXCEPT !.id_ = othr.id_ + 1]

\* Node::Node(const Node&): tag, identifier and a deep copy of the payload
NodeCopy(othr) ==
  [type_ |-> othr.type_, id_ |-> othr.id_,
   bool_ |-> othr.bool_, int_ |-> othr.int_, float_ |-> othr.float_,
   str_ |-> othr.str_, seq_ |-> othr.seq_, map_ |-> othr.map_]

\* Node::Node(Node&&): made takes tag, identifier and payload; the node moved
\* from becomes Null and keeps its identifier
NodeMove(othr) ==
  [made |-> MkNode(othr.type_, othr.id_, othr),
   other |-> MkNode("Null", othr.id_, Storage)]

\* Node::swap: tag, identifier and payload change sides
swap(this, othr) ==
  [this |-> MkNode(othr.type_, othr.id_, othr),
   other |-> MkNode(this.type_, this.id_, this)]

\* operator=(const Node&): a copy is made and swapped in; the copy, holding
\* the old value, is destroyed
CopyAssignment(this, othr) == swap(this, NodeCopy(othr)).this

\* operator=(Node&&)
MoveAssignment(this, othr) == swap(this, othr)

\* the identifiers a .. b - 1 in the order they were given
IdsFrom(a, b) == [i \in 1..(b - a) |-> a + (i - 1)]

CopyLits ==
  {LitScalar("one"), LitScalar("float"),
   LitSeq(<<LitScalar("one"), LitScalar("two")>>)}

\* Node self; Node other;
InitCopy ==
  /\ self = NodeNull(0)
  /\ other = NodeNull(1)
  /\ s_id_ = 2
  /\ pc = "copy"
  /\ steps = 0
  /\ op = "Init"
  /\ exc = NoExc
  /\ ret = 0
  /\ prev = NodeNull(0)
  /\ validator = 0
  /\ objs = <<>>
  /\ heap = <<>>
  /\ args = <<>>
  /\ ids = [t \in {MainThread} |-> <<0, 1>>]
  /\ text = <<>>
  /\ json_import = JsonImport
  /\ indent_ = 0

CopyStep ==
  /\ pc = "copy"
  /\ steps < MaxCopies
  /\ steps' = steps + 1
  /\ exc' = NoExc
  /\ ret' = 0
  /\ prev' = self
  /\ args' = <<other>>
  /\ UNCHANGED <<pc, validVars, codecVars>>

\* Node self = <literal>;
ConstructSelf ==
  /\ CopyStep
  /\ \E lit \in CopyLits :
       LET b == Build(lit, s_id_)
       IN /\ self' = b.node
          /\ s_id_' = b.next
          /\ ids' = [ids EXCEPT ![MainThread] = @ \o IdsFrom(s_id_, b.next)]
  /\ op' = "ConstructSelf"
  /\ UNCHANGED other

\* Node other = <literal>;
ConstructOther ==
  /\ CopyStep
  /\ \E lit \in CopyLits :
       LET b == Build(lit, s_id_)
       IN /\ other' = b.node
          /\ s_id_' = b.next
          /\ ids' = [ids EXCEPT ![MainThread] = @ \o IdsFrom(s_id_, b.next)]
  /\ op' = "ConstructOther"
  /\ UNCHANGED self

\* Node self(other);
CopyConstruct ==
  /\ CopyStep
  /\ self' = NodeCopy(other)
  /\ op' = "CopyConstruct"
  /\ UNCHANGED <<other, s_id_, ids>>

\* Node self(std::move(other));
MoveConstruct ==
  /\ CopyStep
  /\ self' = NodeMove(other).made
  /\ other' = NodeMove(other).other
  /\ op' = "MoveConstruct"
  /\ UNCHANGED <<s_id_, ids>>

\* self = other;
CopyAssign ==
  /\ CopyStep
  /\ self' = CopyAssignment(self, other)
  /\ op' = "CopyAssign"
  /\ UNCHANGED <<other, s_id_, ids>>

\* self = std::move(other);
MoveAssign ==
  /\ CopyStep
  /\ self' = MoveAssignment(self, other).this
  /\ other' = MoveAssignment(self, other).other
  /\ op' = "MoveAssign"
  /\ UNCHANGED <<s_id_, ids>>

\* self.swap(other);
Swap ==
  /\ CopyStep
  /\ self' = swap(self, other).this
  /\ other' = swap(self, other).other
  /\ op' = "Swap"
  /\ UNCHANGED <<s_id_, ids>>

NextCopy ==
  \/ ConstructSelf
  \/ ConstructOther
  \/ CopyConstruct
  \/ MoveConstruct
  \/ CopyAssign
  \/ MoveAssign
  \/ Swap

SpecCopy == InitCopy /\ [][NextCopy]_vars

\* no identifier occurs twice in the log
Distinct(log) == \A i, j \in 1..Len(log) : i # j => log[i] # log[j]

(* C18: copy construction, move construction, copy assignment and move
   assignment give the destination the identifier of the source, swap
   exchanges the identifiers of the two nodes, and any two nodes that come
   from separate value constructions have different identifiers (fewer than
   2^32 nodes are constructed here). *)
C18_IdentifiersFollowValues ==
  /\ [][/\ op' \in {"CopyConstruct", "MoveConstruct", "CopyAssign", "MoveAssign"}
            => self'.id_ = other.id_
        /\ op' = "Swap" => (self'.id_ = other.id_ /\ other'.id_ = self.id_)]_vars
  /\ [](Distinct(ids[MainThread]) /\ Len(ids[MainThread]) = s_id_)

\* after a swap self carries the identifier of a Sequence that other was
\* given, and other the lower one self had before
C18_Witness_Swapped ==
  /\ op = "Swap"
  /\ self.type_ = "Sequence"
  /\ other.type_ = "Integer"
  /\ self.id_ = args[1].id_
  /\ other.id_ = prev.id_
  /\ other.id_ < self.id_

----------------------------------------------------------------------------
(* concurrent construction: several threads construct nodes from values; a
   construction fetches its identifier from the shared counter and then
   initialises the member id_ of the thread's new node *)

MaxNodes == 2

Threads == {"t1", "t2", "t3"}

\* faulty variant: the counter keeps its value
fetch_add_Kept(val, arg) == [ret |-> val, val |-> val]

\* std::atomic<uint32_t>::fetch_add: one indivisible read-modify-write; the
\* counter wraps at 2^32, far above the values it takes here
fetch_add(val, arg) == [ret |-> val, val |-> val + arg]

\* Node::_nextId
nextId(val) == fetch_add(val, 1)

InitThreads ==
  /\ self = NodeNull(NoNodeId)
  /\ other = NodeNull(NoNodeId)
  /\ s_id_ = 0
  /\ pc = [t \in Threads |-> "construct"]
  /\ steps = 0
  /\ op = "Init"
  /\ exc = NoExc
  /\ ret = [t \in Threads |-> NoNodeId]
  /\ prev = NodeNull(NoNodeId)
  /\ validator = 0
  /\ objs = <<>>
  /\ heap = <<>>
  /\ args = <<>>
  /\ ids = [t \in Threads |-> <<>>]
  /\ text = <<>>
  /\ json_import = JsonImport
  /\ indent_ = 0

\* thread t evaluates _nextId() in the member initialiser list
FetchId(t) ==
  /\ pc[t] = "construct"
  /\ Len(ids[t]) < MaxNodes
  /\ s_id_' = nextId(s_id_).val
  /\ ret' = [ret EXCEPT ![t] = nextId(s_id_).ret]
  /\ pc' = [pc EXCEPT ![t] = "id_"]
  /\ op' = "FetchId"
  /\ UNCHANGED <<self, other, steps, exc, prev, args, ids, validVars, codecVars>>

\* thread t initialises id_ of its node with the value it fetched
StoreId(t) ==
  /\ pc[t] = "id_"
  /\ ids' = [ids EXCEPT ![t] = Append(@, ret[t])]
  /\ pc' = [pc EXCEPT ![t] = "construct"]
  /\ op' = "StoreId"
  /\ UNCHANGED <<self, other, s_id_, steps, exc, ret, prev, args, validVars, codecVars>>

NextThreads ==
  \/ \E t \in Threads : FetchId(t)
  \/ \E t \in Threads : StoreId(t)

SpecThreads == InitThreads /\ [][NextThreads]_vars

(* C19: when several threads construct nodes concurrently, under every
   interleaving no two value-constructed nodes get the same identifier, and
   the identifiers given within one thread are strictly increasing in the
   order of construction (the 32-bit counter does not wrap here). *)
C19_ConcurrentIdentifiers ==
  /\ \A t, u \in Threads :
       \A i \in 1..Len(ids[t]) : \A j \in 1..Len(ids[u]) :
         (t # u \/ i # j) => ids[t][i] # ids[u][j]
  /\ \A t \in Threads :
       \A i, j \in 1..Len(ids[t]) : i < j => ids[t][i] < ids[t][j]

\* the constructions of two threads alternated, and a third thread stored an
\* identifier it had fetched before both
C19_Witness_Interleaved ==
  /\ Len(ids["t1"]) = 2 /\ Len(ids["t2"]) = 2 /\ Len(ids["t3"]) = 1
  /\ ids["t3"][1] = 0
  /\ ids["t1"][1] < ids["t2"][1]
  /\ ids["t2"][1] < ids["t1"][2]
  /\ ids["t1"][2] < ids["t2"][2]
  /\ op = "StoreId"
  /\ pc["t3"] = "construct"
  /\ pc["t1"] = "construct" /\ pc["t2"] = "construct"

----------------------------------------------------------------------------
(* import: one JsonImport loads texts, well-formed or not, one after the
   other with load(const String&) *)

MaxLoads == 2

\* {a:true}
TextUnquotedKey ==
  <<123, 97, 58, 116, 114, 117, 101, 125>>

\* {"a":x}
TextUnexpectedValue ==
  <<123, 34, 97, 34, 58, 120, 125>>

\* {"a":1 "b":2}
TextMissingComma ==
  <<123, 34, 97, 34, 58, 49, 32, 34, 98, 34, 58, 50, 125>>

\* {"a":[1}
TextMismatchedBracket ==
  <<123, 34, 97, 34, 58, 91, 49, 125>>

\* {"a":1]
TextMismatchedBrace ==
  <<123, 34, 97, 34, 58, 49, 93>>

\* {"a":"x
TextUnterminatedString ==
  <<123, 34, 97, 34, 58, 34, 120>>

\* {"a":1
TextPrematureEnd ==
  <<123, 34, 97, 34, 58, 49>>

\* {"a":tru
TextPrematureWord ==
  <<123, 34, 97, 34, 58, 116, 114, 117>>

\* the empty text
TextEmpty ==
  <<>>

\* {"a":"\x"}
TextBadEscape ==
  <<123, 34, 97, 34, 58, 34, 92, 120, 34, 125>>

\* {"a":"\u12g4"}
TextBadUnicode ==
  <<123, 34, 97, 34, 58, 34, 92, 117, 49, 50, 103, 52, 34, 125>>

\* {"a":-}
TextMinusOnly ==
  <<123, 34, 97, 34, 58, 45, 125>>

\* {"a":01}
TextLeadingZero ==
  <<123, 34, 97, 34, 58, 48, 49, 125>>

\* {"a":1e}
TextNoExponentDigits ==
  <<123, 34, 97, 34, 58, 49, 101, 125>>

\* {"a":1.}
TextNoFractionDigits ==
  <<123, 34, 97, 34, 58, 49, 46, 125>>

\* [1]
TextTopLevelSequence ==
  <<91, 49, 93>>

\* null
TextTopLevelNull ==
  <<110, 117, 108, 108>>

\* {"a":\n@}
TextNewlineValue ==
  <<123, 34, 97, 34, 58, 10, 64, 125>>
\* {"a":1}
TextSmall ==
  <<123, 34, 97, 34, 58, 49, 125>>

\*  {} 
TextEmptyMap ==
  <<32, 123, 125, 32>>
\* {"a":0}
TextIntZero ==
  <<123, 34, 97, 34, 58, 48, 125>>

\* {"a":-1}
TextIntMinusOne ==
  <<123, 34, 97, 34, 58, 45, 49, 125>>

\* {"a":9223372036854775807}
TextIntMax ==
  <<123, 34, 97, 34, 58, 57, 50, 50, 51, 51, 55, 50, 48, 51, 54, 56, 53, 52,
    55, 55, 53, 56, 48, 55, 125>>

\* {"a":-9223372036854775808}
TextIntMin ==
  <<123, 34, 97, 34, 58, 45, 57, 50, 50, 51, 51, 55, 50, 48, 51, 54, 56, 53,
    52, 55, 55, 53, 56, 48, 56, 125>>

\* {"a":9223372036854775808}
TextIntAboveMax ==
  <<123, 34, 97, 34, 58, 57, 50, 50, 51, 51, 55, 50, 48, 51, 54, 56, 53, 52,
    55, 55, 53, 56, 48, 56, 125>>

\* {"a":-9223372036854775809}
TextIntBelowMin ==
  <<123, 34, 97, 34, 58, 45, 57, 50, 50, 51, 51, 55, 50, 48, 51, 54, 56, 53,
    52, 55, 55, 53, 56, 48, 57, 125>>

\* {"a":18446744073709551616}
TextIntTwoTo64 ==
  <<123, 34, 97, 34, 58, 49, 56, 52, 52, 54, 55, 52, 52, 48, 55, 51, 55, 48,
    57, 53, 53, 49, 54, 49, 54, 125>>
TextsInteger ==
  {TextIntZero, TextIntMinusOne, TextIntMax, TextIntMin, TextIntAboveMax,
   TextIntBelowMin, TextIntTwoTo64}

\* 9223372036854775807
DigitsIntMax ==
  <<57, 50, 50, 51, 51, 55, 50, 48, 51, 54, 56, 53, 52, 55, 55, 53, 56, 48,
    55>>

\* 9223372036854775808
DigitsIntMinMagnitude ==
  <<57, 50, 50, 51, 51, 55, 50, 48, 51, 54, 56, 53, 52, 55, 55, 53, 56, 48,
    56>>
\* the texts that are no well-formed JSON object document
TextsMalformed ==
  {TextUnquotedKey, TextUnexpectedValue, TextMissingComma,
   TextMismatchedBracket, TextMismatchedBrace, TextUnterminatedString,
   TextPrematureEnd, TextPrematureWord, TextEmpty,
   TextBadEscape, TextBadUnicode, TextMinusOnly,
   TextLeadingZero, TextNoExponentDigits, TextNoFractionDigits,
   TextTopLevelSequence, TextTopLevelNull, TextNewlineValue}

TextsWellFormed == {TextSmall, TextEmptyMap, TextLines}

ImportTexts == TextsMalformed \cup TextsWellFormed \cup TextsInteger

\* JsonImport json_import;
InitImport ==
  /\ self = NodeNull(0)
  /\ other = NodeNull(NoNodeId)
  /\ s_id_ = 1
  /\ pc = "import"
  /\ steps = 0
  /\ op = "Init"
  /\ exc = NoExc
  /\ ret = {}
  /\ prev = NodeNull(0)
  /\ validator = 0
  /\ objs = <<>>
  /\ heap = <<>>
  /\ args = <<>>
  /\ ids = <<>>
  /\ text = <<>>
  /\ json_import = JsonImport
  /\ indent_ = 0

\* self = json_import.load(str): a Node is returned or an exception leaves
\* the call, which carries line_ and pos_ as they are at the throw; ret is
\* parseinfo()
LoadString ==
  /\ pc = "import"
  /\ steps < MaxLoads
  /\ steps' = steps + 1
  /\ \E str \in ImportTexts : \E changed \in StreamChanged(json_import) :
       LET l == loadFrom(str, StartReader(json_import, changed, s_id_))
       IN /\ self' = IF Failed(l.p) THEN self ELSE l.node
          /\ s_id_' = l.p.next
          /\ exc' = l.p.exc
          /\ ret' = l.p.parseinfo_
          /\ json_import' = Imported(l.p)
          /\ args' = <<str, changed>>
  /\ op' = "LoadString"
  /\ prev' = self
  /\ UNCHANGED <<other, pc, validVars, text, indent_, ids>>

NextImport ==
  \/ LoadString

SpecImport == InitImport /\ [][NextImport]_vars

(* C21: for every text that is no well-formed JSON object document
   (unexpected character, mismatched bracket, unterminated string, premature
   end of input, malformed number, top-level value that is no object)
   JsonImport::load fails with an ImportException; it never returns a Node
   for such a text and lets no exception of another type escape. *)
C21_MalformedTextThrows ==
  (op = "LoadString" /\ args[1] \in TextsMalformed)
    => (exc.kind = "ImportException" /\ self = prev)

\* the index in str of the character that makes str malformed, for the texts
\* in which one character is out of place
OffendingAt(str) ==
  CASE str = TextUnquotedKey -> 2
    [] str = TextUnexpectedValue -> 6
    [] str = TextMissingComma -> 8
    [] str = TextMismatchedBracket -> 8
    [] str = TextMismatchedBrace -> 7
    [] str = TextBadEscape -> 8
    [] str = TextNewlineValue -> 7

TextsOffending ==
  {TextUnquotedKey, TextUnexpectedValue, TextMissingComma,
   TextMismatchedBracket, TextMismatchedBrace, TextBadEscape,
   TextNewlineValue}

(* C22: when JsonImport::load fails on an unexpected character, the line and
   column the ImportException carries are those of the offending character
   itself (for {a:true}: line 1, column 2), counted 1-based as the marks of
   nodes are, whether the parser found the character by peeking or by
   reading it. *)
C22_ExceptionAtOffendingCharacter ==
  (op = "LoadString" /\ args[1] \in TextsOffending)
    => /\ exc.kind = "ImportException"
       /\ json_import.line_ = LineOf(args[1], OffendingAt(args[1]))
       /\ json_import.pos_ = ColumnOf(args[1], OffendingAt(args[1]))

\* the integer literal of a text {"a":<literal>}
LiteralOf(str) == SubSeq(str, 6, Len(str) - 1)

\* a <= b for two digit strings without leading zeros
DigitsLeq(a, b) ==
  Len(a) < Len(b) \/ (Len(a) = Len(b) /\ (a = b \/ StrLess(a, b)))

\* the value of the literal lies in [-2^63, 2^63 - 1]
LiteralInRange(lit) ==
  IF lit[1] = Ch.minus THEN DigitsLeq(Tail(lit), DigitsIntMinMagnitude)
  ELSE DigitsLeq(lit, DigitsIntMax)

\* the value of a digit string below 2^64: acc holds the value n of the
\* digits taken and the digits left
RECURSIVE DigitsValue(_)
DigitsValue(acc) ==
  IF acc.left = <<>> THEN acc.n
  ELSE DigitsValue([n |-> Add64(Mul10(acc.n), I64(acc.left[1] - Ch.zero)),
                    left |-> Tail(acc.left)])

\* the value of a literal in range, as a 64-bit two's complement number
LiteralValue(lit) ==
  IF lit[1] = Ch.minus
  THEN Neg64(DigitsValue([n |-> Zero64, left |-> Tail(lit)]))
  ELSE DigitsValue([n |-> Zero64, left |-> lit])

(* C23: for every JSON integer literal (optional minus sign, digits, no
   fraction, no exponent) JsonImport::load yields an Integer node equal to
   the literal's value whenever the value lies in [-2^63, 2^63 - 1], both
   boundary values included; for a literal outside that range load fails
   and returns no Integer node of a different, wrapped value. *)
C23_IntegerLiterals ==
  (op = "LoadString" /\ args[1] \in TextsInteger)
    => IF LiteralInRange(LiteralOf(args[1]))
       THEN /\ exc.kind = "none"
            /\ self.type_ = "Map"
            /\ KeysOf(self) = {KeyA}
            /\ ValueOf(self, KeyA).type_ = "Integer"
            /\ ValueOf(self, KeyA).int_ = LiteralValue(LiteralOf(args[1]))
       ELSE exc.kind # "none" /\ self = prev

----------------------------------------------------------------------------
(* validation: the node an exception of validate names *)

(* C26: every exception validate throws for a rejected node carries the
   identifier of a node of the validated tree, never the identifier of no
   node. *)
C26_ExceptionsNameOffendingNode ==
  (op = "validate" /\ exc.kind # "none")
    => /\ exc.node_id_ # NoNodeId
       /\ \E n \in NodesOf(self) : n.id_ = exc.node_id_

----------------------------------------------------------------------------
(* JsonImport: what a call of load(const String&) starts from *)

(* C27: every call of load(const String&), whose stream is a new local
   stream and never the stream of the call before, leaves the line, the
   position and the parse marks that a new importer leaves for the same text:
   the count starts at line 1, position 1 and the marks of earlier calls are
   gone. *)
C27_LoadStringStartsAfresh ==
  [][op' = "LoadString"
       => json_import' = Imported(loadFrom(args'[1], NewReader(s_id_)).p)]_vars

----------------------------------------------------------------------------
(* ownership: Validator objects with the payload aux_data_ points to.  objs
   holds the objects v1 and v2, each constructed or not; heap holds the
   payloads allocated with new, a cell being live until it is deleted *)

Names == {"v1", "v2"}

Addresses == {"p1", "p2", "p3"}

nullptr == "nullptr"

Unconstructed ==
  [alive |-> FALSE, type_ |-> "Null", fcn_ |-> "vAlways", aux_data_ |-> nullptr]

FreeCell == [live |-> FALSE, data |-> NullAux]

\* new: an address that is not in use
new(hp) == CHOOSE a \in Addresses : ~hp[a].live

\* the Validator an object denotes: its tag, its function and the payload its
\* pointer leads to
Deref(o, hp) ==
  MkValidator(o.type_, o.fcn_,
              IF o.aux_data_ = nullptr THEN NullAux ELSE hp[o.aux_data_].data)

\* the constructors of Validator: the payload is allocated unless the
\* constructor is Validator(NodeType, ValidationFcn)
ValidatorConstruct(v, hp) ==
  IF v.aux_data_.null
  THEN [made |-> [alive |-> TRUE, type_ |-> v.type_, fcn_ |-> v.fcn_,
                  aux_data_ |-> nullptr],
        heap |-> hp]
  ELSE [made |-> [alive |-> TRUE, type_ |-> v.type_, fcn_ |-> v.fcn_,
                  aux_data_ |-> new(hp)],
        heap |-> [hp EXCEPT ![new(hp)] = [live |-> TRUE, data |-> v.aux_data_]]]

\* Validator(const Validator&) reads *other.aux_data_.seq_validators_ or
\* *other.aux_data_.map_groups_ without a test for nullptr: true when the
\* copy of v, or of a validator the payload of v holds, reads through nullptr
RECURSIVE CopyReadsNull(_)
CopyReadsNull(v) ==
  \/ v.type_ \in {"Sequence", "Map"} /\ v.aux_data_.null
  \/ \E i \in 1..Len(v.aux_data_.seq_validators_) :
       CopyReadsNull(v.aux_data_.seq_validators_[i])
  \/ \E i \in 1..Len(v.aux_data_.map_groups_) :
       \E j \in 1..Len(v.aux_data_.map_groups_[i].entries_) :
         CopyReadsNull(v.aux_data_.map_groups_[i].entries_[j].validator_)

\* what a read through nullptr does: the process is ended by a signal, or,
\* where address 0 can be read and holds zeros, the vector read is empty
NullReadOutcomes == {"signal", "zeros"}

\* the copy of v when every read through nullptr yields an empty vector
RECURSIVE CopyOfZeros(_)
CopyOfZeros(v) ==
  [v EXCEPT
     !.aux_data_.null = IF v.type_ \in {"Sequence", "Map"} THEN FALSE ELSE @,
     !.aux_data_.seq_validators_ = [i \in 1..Len(@) |-> CopyOfZeros(@[i])],
     !.aux_data_.map_groups_ =
        [i \in 1..Len(@) |->
           [@[i] EXCEPT !.entries_ =
              [j \in 1..Len(@) |->
                 [@[j] EXCEPT !.validator_ = CopyOfZeros(@)]]]]]

\* faulty variant: the pointer of the source is kept
ValidatorMove_Shared(othr) ==
  [made |-> [alive |-> TRUE, type_ |-> othr.type_, fcn_ |-> othr.fcn_,
             aux_data_ |-> othr.aux_data_],
   othr |-> [othr EXCEPT !.type_ = "Null"]]

\* Validator(Validator&&): takes tag, function and pointer; the source becomes
\* Null with a null pointer
ValidatorMove(othr) ==
  [made |-> [alive |-> TRUE, type_ |-> othr.type_, fcn_ |-> othr.fcn_,
             aux_data_ |-> othr.aux_data_],
   othr |-> [othr EXCEPT !.type_ = "Null", !.aux_data_ = nullptr]]

\* Validator(const Validator&), v being the Validator the copy denotes: a new
\* payload for a range that is present, for a Sequence and for a Map
ValidatorCopy(v, othr, hp) ==
  IF \/ othr.type_ \in {"Integer", "FloatingPoint"} /\ othr.aux_data_ # nullptr
     \/ othr.type_ \in {"Sequence", "Map"}
  THEN [made |-> [alive |-> TRUE, type_ |-> othr.type_, fcn_ |-> othr.fcn_,
                  aux_data_ |-> new(hp)],
        heap |-> [hp EXCEPT ![new(hp)] = [live |-> TRUE, data |-> v.aux_data_]]]
  ELSE [made |-> [alive |-> TRUE, type_ |-> othr.type_, fcn_ |-> othr.fcn_,
                  aux_data_ |-> nullptr],
        heap |-> hp]

\* ~Validator: the payload is deleted under the tag of the object; deleting
\* nullptr does nothing
ValidatorDestroy(o, hp) ==
  IF o.type_ \in {"Integer", "FloatingPoint", "Sequence", "Map"}
     /\ o.aux_data_ # nullptr
  THEN [hp EXCEPT ![o.aux_data_] = FreeCell]
  ELSE hp

\* delete of a payload that was deleted before
DoubleDelete(o, hp) ==
  /\ o.type_ \in {"Integer", "FloatingPoint", "Sequence", "Map"}
  /\ o.aux_data_ # nullptr
  /\ ~hp[o.aux_data_].live

\* the validators the objects are constructed from
OwnedValidators ==
  {NullType, ValidatorFcn("String", "evenInt"), IntegerTypeRange(Zero64, One64),
   FloatingPointTypeRange(FZero, FTen), SequenceType(<<BooleanType>>),
   SequenceTypeFcn("threeIntegers"),
   MapType(<<MapGroup(<<MapEntryType(KeyC, SequenceTypeFcn("threeIntegers"),
                                     "Required")>>,
                      "AllowMoreEntries", "vAllMaps")>>)}

InitOwnership ==
  /\ objs = [n \in Names |-> Unconstructed]
  /\ heap = [a \in Addresses |-> FreeCell]
  /\ validator = 0
  /\ self = NodeNull(NoNodeId)
  /\ other = NodeNull(NoNodeId)
  /\ s_id_ = 0
  /\ pc = "run"
  /\ steps = 0
  /\ op = "Init"
  /\ exc = NoExc
  /\ ret = 0
  /\ prev = self
  /\ args = <<>>
  /\ ids = <<>>
  /\ text = <<>>
  /\ indent_ = 0
  /\ json_import = JsonImport

\* what every step of the ownership model leaves alone
OwnershipFrame ==
  UNCHANGED <<self, other, s_id_, steps, ret, prev, validator, ids, codecVars>>

\* the process is ended: by a read through nullptr or by a second delete
Crash(name) ==
  /\ pc' = "crashed"
  /\ exc' = [kind |-> name, node_id_ |-> NoNodeId]
  /\ UNCHANGED <<objs, heap>>

\* Validator d = <builder>;
ConstructValidator ==
  /\ pc = "run"
  /\ \E d \in Names : \E v \in OwnedValidators :
       /\ ~objs[d].alive
       /\ objs' = [objs EXCEPT ![d] = ValidatorConstruct(v, heap).made]
       /\ heap' = ValidatorConstruct(v, heap).heap
       /\ args' = <<d, d>>
  /\ op' = "Construct"
  /\ UNCHANGED <<pc, exc>>
  /\ OwnershipFrame

\* the outcomes of Validator made(othr) for the object othr; temp is what the
\* caller does with the copy
CopyOutcomes(othr, hp) ==
  IF CopyReadsNull(Deref(othr, hp))
  THEN {[crashed |-> o = "signal",
         copy |-> ValidatorCopy(CopyOfZeros(Deref(othr, hp)), othr, hp)] :
          o \in NullReadOutcomes}
  ELSE {[crashed |-> FALSE, copy |-> ValidatorCopy(Deref(othr, hp), othr, hp)]}

\* Validator d(s);
CopyConstructValidator ==
  /\ pc = "run"
  /\ \E d \in Names : \E s \in Names :
       /\ ~objs[d].alive /\ objs[s].alive
       /\ args' = <<d, s>>
       /\ \E c \in CopyOutcomes(objs[s], heap) :
            IF c.crashed THEN Crash("SIGSEGV")
            ELSE /\ objs' = [objs EXCEPT ![d] = c.copy.made]
                 /\ heap' = c.copy.heap
                 /\ UNCHANGED <<pc, exc>>
  /\ op' = "CopyConstruct"
  /\ OwnershipFrame

\* Validator d(std::move(s));
MoveConstructValidator ==
  /\ pc = "run"
  /\ \E d \in Names : \E s \in Names :
       /\ ~objs[d].alive /\ objs[s].alive
       /\ args' = <<d, s>>
       /\ objs' = [objs EXCEPT ![d] = ValidatorMove(objs[s]).made,
                               ![s] = ValidatorMove(objs[s]).othr]
  /\ op' = "MoveConstruct"
  /\ UNCHANGED <<pc, exc, heap>>
  /\ OwnershipFrame

\* d = temp by Validator::operator=(Validator other): swap(other), then the
\* parameter, which holds what d held, is destroyed
AssignValidator(d, temp, os, hp) ==
  IF DoubleDelete(os[d], hp) THEN Crash("double free")
  ELSE /\ objs' = [os EXCEPT ![d] = temp]
       /\ heap' = ValidatorDestroy(os[d], hp)
       /\ UNCHANGED <<pc, exc>>

\* d = s;
CopyAssignValidator ==
  /\ pc = "run"
  /\ \E d \in Names : \E s \in Names :
       /\ objs[d].alive /\ objs[s].alive
       /\ args' = <<d, s>>
       /\ \E c \in CopyOutcomes(objs[s], heap) :
            IF c.crashed THEN Crash("SIGSEGV")
            ELSE AssignValidator(d, c.copy.made, objs, c.copy.heap)
  /\ op' = "CopyAssign"
  /\ OwnershipFrame

\* d = std::move(s);
MoveAssignValidator ==
  /\ pc = "run"
  /\ \E d \in Names : \E s \in Names :
       /\ objs[d].alive /\ objs[s].alive
       /\ args' = <<d, s>>
       /\ AssignValidator(d, ValidatorMove(objs[s]).made,
                          [objs EXCEPT ![s] = ValidatorMove(objs[s]).othr], heap)
  /\ op' = "MoveAssign"
  /\ OwnershipFrame

\* d.swap(s);
SwapValidators ==
  /\ pc = "run"
  /\ \E d \in Names : \E s \in Names :
       /\ objs[d].alive /\ objs[s].alive
       /\ args' = <<d, s>>
       /\ objs' = [objs EXCEPT ![d] = objs[s], ![s] = objs[d]]
  /\ op' = "Swap"
  /\ UNCHANGED <<pc, exc, heap>>
  /\ OwnershipFrame

\* d leaves its scope
DestroyValidator ==
  /\ pc = "run"
  /\ \E d \in Names :
       /\ objs[d].alive
       /\ args' = <<d, d>>
       /\ IF DoubleDelete(objs[d], heap) THEN Crash("double free")
          ELSE /\ objs' = [objs EXCEPT ![d] = Unconstructed]
               /\ heap' = ValidatorDestroy(objs[d], heap)
               /\ UNCHANGED <<pc, exc>>
  /\ op' = "Destroy"
  /\ OwnershipFrame

NextOwnership ==
  \/ ConstructValidator
  \/ CopyConstructValidator
  \/ MoveConstructValidator
  \/ CopyAssignValidator
  \/ MoveAssignValidator
  \/ SwapValidators
  \/ DestroyValidator

SpecOwnership == InitOwnership /\ [][NextOwnership]_vars

\* the accessors fail on the object o
Inert(o, hp) ==
  /\ o.type_ = "Null"
  /\ intRange(Deref(o, hp)).exc = TypeExceptionNoNode
  /\ floatRange(Deref(o, hp)).exc = TypeExceptionNoNode
  /\ seqValidators(Deref(o, hp)).exc = TypeExceptionNoNode
  /\ mapGroups(Deref(o, hp)).exc = TypeExceptionNoNode

\* no payload is owned by two constructed objects and every payload owned is
\* live
SingleOwner ==
  /\ \A a \in Names : \A b \in Names :
       (a # b /\ objs[a].alive /\ objs[b].alive /\ objs[a].aux_data_ # nullptr)
         => objs[a].aux_data_ # objs[b].aux_data_
  /\ \A a \in Names :
       (objs[a].alive /\ objs[a].aux_data_ # nullptr) => heap[objs[a].aux_data_].live

(* C28: after d was move-constructed or move-assigned from another object s,
   s is Null and intRange, floatRange, seqValidators and mapGroups on s throw
   TypeException, while d has the tag, the function and the very payload,
   at its address, that s had; and after any sequence of constructions,
   copies, moves, assignments, swaps and destructions no payload is owned by
   two constructed validators and none is deleted twice. *)
C28_MovedFromIsInert ==
  /\ [][\A d \in Names : \A s \in Names :
          (op' \in {"MoveConstruct", "MoveAssign"} /\ args' = <<d, s>> /\ d # s)
            => /\ Inert(objs'[s], heap')
               /\ objs'[s].aux_data_ = nullptr
               /\ objs'[d].type_ = objs[s].type_
               /\ objs'[d].fcn_ = objs[s].fcn_
               /\ objs'[d].aux_data_ = objs[s].aux_data_
               /\ Deref(objs'[d], heap') = Deref(objs[s], heap)]_vars
  /\ [](SingleOwner /\ exc.kind # "double free")

\* v2 was move-assigned the Sequence validator of v1, whose payload it now
\* owns, after the payload v2 held before was deleted
C28_Witness_MoveAssigned ==
  /\ op = "MoveAssign"
  /\ args = <<"v2", "v1">>
  /\ objs["v1"].alive /\ objs["v1"].type_ = "Null"
  /\ objs["v2"].type_ = "Sequence"
  /\ objs["v2"].aux_data_ # nullptr
  /\ heap[objs["v2"].aux_data_].data.seq_validators_ = <<BooleanType>>
  /\ Cardinality({a \in Addresses : heap[a].live}) = 1

\* the nodes the copies are tried on
OwnershipNodes ==
  {Build(lit, 0).node :
     lit \in {LitScalar("null"), LitScalar("one"), LitScalar("five"),
              LitScalar("float"), LitScalar("string"),
              LitSeq(<<LitScalar("true")>>),
              LitSeq(<<LitScalar("zero"), LitScalar("zero"), LitScalar("zero")>>),
              LitOfPairs(<<<<KeyC, LitSeq(<<LitScalar("zero"), LitScalar("one")>>)>>>>)}}

(* C29: copy construction and copy assignment from any validator end without
   a read through an absent payload and leave the destination with the tag
   and the function of the source, with a payload of its own that equals the
   payload of the source, present where the source has one, and accepting
   the nodes the source accepts. *)
C29_CopyOwnsEqualPayload ==
  [][\A d \in Names : \A s \in Names :
       (op' \in {"CopyConstruct", "CopyAssign"} /\ args' = <<d, s>>)
         => /\ pc' = "run"
            /\ Deref(objs'[d], heap') = Deref(objs[s], heap)
            /\ (objs'[d].aux_data_ = nullptr) <=> (objs[s].aux_data_ = nullptr)
            /\ (d # s /\ objs[s].aux_data_ # nullptr)
                 => objs'[d].aux_data_ # objs'[s].aux_data_
            /\ \A node \in OwnershipNodes :
                 Validate(Deref(objs'[d], heap'), node)
                   = Validate(Deref(objs[s], heap), node)]_vars

----------------------------------------------------------------------------
(* JsonImport::load step by step: text is what the stream has left, pc the
   place in the code, args the places the calls in progress return to, ret
   the locals of the function at work.  A step is one read or peek with the
   branch the code takes on it; line_ and pos_, which no branch reads, are
   left out *)

MaxTextLen == 3

\* the bytes the short input texts are made of
ParseAlphabet ==
  {Ch.lbrace, Ch.rbrace, Ch.lbracket, Ch.rbracket, Ch.quote, Ch.colon,
   Ch.comma, Ch.space, Ch.backslash, Ch.zero + 1, Ch.minus, Ch.n}

\* {"a":[[],{"":-1.5e+2}],"é\n":true}
TextNested ==
  <<123, 34, 97, 34, 58, 91, 91, 93, 44, 123, 34, 34, 58, 45, 49, 46, 53, 101,
    43, 50, 125, 93, 44, 34, 92, 117, 48, 48, 101, 57, 92, 110, 34, 58, 116,
    114, 117, 101, 125>>

\* every input of at most MaxTextLen bytes of the alphabet, the texts of the
\* import, and every text that ends early in TextNested
ParseTexts ==
  ListsUpTo(ParseAlphabet, MaxTextLen)
  \cup ImportTexts
  \cup {SubSeq(TextNested, 1, k) : k \in 0..Len(TextNested)}

Locals ==
  [expect |-> <<>>, i |-> 0, number_str |-> <<>>, is_float |-> FALSE]

InitParse ==
  /\ text = <<>>
  /\ prev = text
  /\ pc = "call"
  /\ args = <<>>
  /\ ret = Locals
  /\ exc = NoExc
  /\ op = "Init"
  /\ self = NodeNull(NoNodeId)
  /\ other = NodeNull(NoNodeId)
  /\ s_id_ = 0
  /\ steps = 0
  /\ validator = 0
  /\ objs = <<>>
  /\ heap = <<>>
  /\ ids = <<>>
  /\ indent_ = 0
  /\ json_import = JsonImport

ParseFrame ==
  UNCHANGED <<self, other, s_id_, steps, prev, validVars, ids, indent_,
              json_import>>

\* json_import.load(str): the stream is made of str
CallLoad ==
  /\ pc = "call"
  /\ \E str \in ParseTexts :
       /\ text' = str
       /\ prev' = str
  /\ pc' = "load"
  /\ op' = "call"
  /\ UNCHANGED <<self, other, s_id_, steps, exc, ret, validVars, callVars,
                 indent_, json_import>>

\* faulty variant: the character stays in the stream
Consume_Stay(strm) == strm

\* strm_->get() of a stream that has a character left
Consume(strm) == Tail(strm)

\* strm_->eof() after strm_->peek() or strm_->get()
eof(strm) == strm = <<>>

\* what a step leads to: the place label with the stream, the calls and the
\* locals given
Goto(label, strm, calls, locals) ==
  [pc |-> label, text |-> strm, args |-> calls, ret |-> locals, exc |-> exc]

\* JsonImport::raise, and what leaves load with it
ParseThrow(e) ==
  [pc |-> "thrown", text |-> text, args |-> args, ret |-> ret, exc |-> e]

\* the step to the state next
Apply(next) ==
  /\ pc' = next.pc
  /\ text' = next.text
  /\ args' = next.args
  /\ ret' = next.ret
  /\ exc' = next.exc

\* return to the caller
Return == Goto(Head(args), text, Tail(args), ret)

\* load(std::istream&, StringPtr)
StepLoad ==
  /\ pc \in {"load", "load_peek", "load_return"}
  /\ op' = "load"
  /\ Apply(CASE pc = "load" -> Goto("skipWs", text, <<"load_peek">> \o args, ret)
             [] pc = "load_peek" ->
                  IF eof(text) \/ Head(text) # Ch.lbrace THEN ParseThrow(ImportException)
                  ELSE Goto("loadMap", text, <<"load_return">> \o args, ret)
             [] pc = "load_return" -> Goto("returned", text, args, ret))
  /\ ParseFrame

\* one turn of the loop of skipWs
StepSkipWs ==
  /\ pc = "skipWs"
  /\ op' = "skipWs"
  /\ Apply(IF eof(text) \/ ~isWhitespace(Head(text)) THEN Return
           ELSE Goto("skipWs", Consume(text), args, ret))
  /\ ParseFrame

\* loadValue: the callee returns to the caller of loadValue
StepLoadValue ==
  /\ pc = "loadValue"
  /\ op' = "loadValue"
  /\ Apply(IF eof(text) THEN ParseThrow(ImportException)
           ELSE CASE Head(text) = Ch.quote -> Goto("parseString", text, args, ret)
                  [] Head(text) = Ch.lbracket -> Goto("loadSequence", text, args, ret)
                  [] Head(text) = Ch.lbrace -> Goto("loadMap", text, args, ret)
                  [] Head(text) = Ch.t ->
                       Goto("loadWord", text, args, [Locals EXCEPT !.expect = TextTrue])
                  [] Head(text) = Ch.f ->
                       Goto("loadWord", text, args, [Locals EXCEPT !.expect = TextFalse])
                  [] Head(text) = Ch.n ->
                       Goto("loadWord", text, args, [Locals EXCEPT !.expect = TextNull])
                  [] Head(text) = Ch.minus \/ isDigit(Head(text)) ->
                       Goto("loadNumber", text, args, Locals)
                  [] OTHER -> ParseThrow(ImportException))
  /\ ParseFrame

\* loadNull, loadTrue, loadFalse: one read of the chain of comparisons, then
\* skipWs and the return
StepLoadWord ==
  /\ pc = "loadWord"
  /\ op' = "loadWord"
  /\ Apply(IF eof(text) \/ Head(text) # Head(ret.expect) THEN ParseThrow(ImportException)
           ELSE IF Len(ret.expect) = 1
           THEN Goto("skipWs", Consume(text), args, [ret EXCEPT !.expect = <<>>])
           ELSE Goto("loadWord", Consume(text), args, [ret EXCEPT !.expect = Tail(@)]))
  /\ ParseFrame

\* the locals after number_str += c
Collected(c) == [ret EXCEPT !.number_str = Append(@, c)]

\* the integer part of loadNumber after c was read
IntegerPart(c, strm, locals) ==
  IF c = Ch.zero THEN Goto("number_zero", strm, args, locals)
  ELSE IF isNonzeroDigit(c) THEN Goto("number_int", strm, args, locals)
  ELSE ParseThrow(ImportException)

\* a loop of loadNumber over digits: peek, leave to next or read the digit
DigitLoop(next) ==
  IF eof(text) THEN ParseThrow(ImportException)
  ELSE IF ~isDigit(Head(text)) THEN Goto(next, text, args, ret)
  ELSE Goto(pc, Consume(text), args, Collected(Head(text)))

\* what std::stod and the test of idx make of the text collected: the text
\* is converted as a whole or an exception leaves loadNumber; an integer is
\* assembled without either
StodOutcomes ==
  IF pc = "number_make" /\ ret.is_float THEN BOOLEAN ELSE {TRUE}

\* loadNumber
StepLoadNumber ==
  /\ pc \in {"loadNumber", "number_sign", "number_zero", "number_int",
             "number_dot", "number_frac", "number_exp", "number_exp_sign",
             "number_exp_digit", "number_exp_loop", "number_end", "number_make"}
  /\ op' = "loadNumber"
  /\ \E converted \in StodOutcomes :
     Apply(CASE pc = "loadNumber" ->
                  IF Head(text) = Ch.minus
                  THEN Goto("number_sign", Consume(text), args, Collected(Head(text)))
                  ELSE IntegerPart(Head(text), Consume(text), Collected(Head(text)))
             [] pc = "number_sign" ->
                  IF eof(text) THEN ParseThrow(ImportException)
                  ELSE IntegerPart(Head(text), Consume(text), Collected(Head(text)))
             [] pc = "number_zero" ->
                  IF eof(text) THEN ParseThrow(ImportException)
                  ELSE Goto("number_dot", text, args, ret)
             [] pc = "number_int" -> DigitLoop("number_dot")
             [] pc = "number_dot" ->
                  IF Head(text) = Ch.dot
                  THEN Goto("number_frac", Consume(text), args,
                            [Collected(Head(text)) EXCEPT !.is_float = TRUE])
                  ELSE Goto("number_exp", text, args, ret)
             [] pc = "number_frac" -> DigitLoop("number_exp")
             [] pc = "number_exp" ->
                  IF Head(text) \in {Ch.e, Ch.E}
                  THEN Goto("number_exp_sign", Consume(text), args,
                            [Collected(Head(text)) EXCEPT !.is_float = TRUE])
                  ELSE Goto("number_end", text, args, ret)
             [] pc = "number_exp_sign" ->
                  IF eof(text) THEN ParseThrow(ImportException)
                  ELSE IF Head(text) \in {Ch.plus, Ch.minus}
                  THEN Goto("number_exp_digit", Consume(text), args, Collected(Head(text)))
                  ELSE IF ~isDigit(Head(text)) THEN ParseThrow(ImportException)
                  ELSE Goto("number_exp_loop", Consume(text), args, Collected(Head(text)))
             [] pc = "number_exp_digit" ->
                  IF eof(text) \/ ~isDigit(Head(text)) THEN ParseThrow(ImportException)
                  ELSE Goto("number_exp_loop", Consume(text), args, Collected(Head(text)))
             [] pc = "number_exp_loop" -> DigitLoop("number_end")
             [] pc = "number_end" -> Goto("skipWs", text, <<"number_make">> \o args, ret)
             [] pc = "number_make" ->
                  IF converted THEN Return ELSE ParseThrow(ImportException))
  /\ ParseFrame

\* loadSequence
StepLoadSequence ==
  /\ pc \in {"loadSequence", "seq_first", "seq_after", "seq_next", "seq_close"}
  /\ op' = "loadSequence"
  /\ Apply(CASE pc = "loadSequence" ->
                  Goto("skipWs", Consume(text), <<"seq_first">> \o args, ret)
             [] pc = "seq_first" ->
                  IF eof(text) THEN ParseThrow(ImportException)
                  ELSE IF Head(text) # Ch.rbracket
                  THEN Goto("loadValue", text, <<"seq_after">> \o args, ret)
                  ELSE Goto("seq_close", text, args, ret)
             [] pc = "seq_after" ->
                  IF eof(text) THEN ParseThrow(ImportException)
                  ELSE IF Head(text) = Ch.rbracket THEN Goto("seq_close", text, args, ret)
                  ELSE IF Head(text) = Ch.comma
                  THEN Goto("skipWs", Consume(text), <<"seq_next">> \o args, ret)
                  ELSE ParseThrow(ImportException)
             [] pc = "seq_next" -> Goto("loadValue", text, <<"seq_after">> \o args, ret)
             [] pc = "seq_close" -> Goto("skipWs", Consume(text), args, ret))
  /\ ParseFrame

\* loadMap
StepLoadMap ==
  /\ pc \in {"loadMap", "map_first", "map_key", "map_colon", "map_value",
             "map_after", "map_close"}
  /\ op' = "loadMap"
  /\ Apply(CASE pc = "loadMap" ->
                  Goto("skipWs", Consume(text), <<"map_first">> \o args, ret)
             [] pc = "map_first" ->
                  IF eof(text) THEN ParseThrow(ImportException)
                  ELSE IF Head(text) # Ch.rbrace THEN Goto("map_key", text, args, ret)
                  ELSE Goto("map_close", text, args, ret)
             [] pc = "map_key" -> Goto("parseString", text, <<"map_colon">> \o args, ret)
             [] pc = "map_colon" ->
                  IF eof(text) \/ Head(text) # Ch.colon THEN ParseThrow(ImportException)
                  ELSE Goto("skipWs", Consume(text), <<"map_value">> \o args, ret)
             [] pc = "map_value" -> Goto("loadValue", text, <<"map_after">> \o args, ret)
             [] pc = "map_after" ->
                  IF eof(text) THEN ParseThrow(ImportException)
                  ELSE IF Head(text) = Ch.rbrace THEN Goto("map_close", text, args, ret)
                  ELSE IF Head(text) = Ch.comma
                  THEN Goto("skipWs", Consume(text), <<"map_key">> \o args, ret)
                  ELSE ParseThrow(ImportException)
             [] pc = "map_close" -> Goto("skipWs", Consume(text), args, ret))
  /\ ParseFrame

\* parseString: the opening quote, then one read of the loop, escape being
\* true at string_escape
StepParseString ==
  /\ pc \in {"parseString", "string_loop", "string_escape"}
  /\ op' = "parseString"
  /\ Apply(CASE pc = "parseString" ->
                  IF eof(text) \/ Head(text) # Ch.quote THEN ParseThrow(ImportException)
                  ELSE Goto("string_loop", Consume(text), args, ret)
             [] pc = "string_loop" ->
                  IF eof(text) THEN ParseThrow(ImportException)
                  ELSE IF Head(text) = Ch.quote THEN Goto("skipWs", Consume(text), args, ret)
                  ELSE IF Head(text) = Ch.backslash
                  THEN Goto("string_escape", Consume(text), args, ret)
                  ELSE Goto("string_loop", Consume(text), args, ret)
             [] pc = "string_escape" ->
                  IF eof(text) THEN ParseThrow(ImportException)
                  ELSE IF Head(text) \in {Ch.quote, Ch.backslash, Ch.slash, Ch.b, Ch.f,
                                          Ch.n, Ch.r, Ch.t}
                  THEN Goto("string_loop", Consume(text), args, ret)
                  ELSE IF Head(text) = Ch.u
                  THEN Goto("parseCharacter", Consume(text), args, [ret EXCEPT !.i = 0])
                  ELSE ParseThrow(ImportException))
  /\ ParseFrame

\* one turn of the loop of parseCharacter, which ends after four
StepParseCharacter ==
  /\ pc = "parseCharacter"
  /\ op' = "parseCharacter"
  /\ Apply(IF eof(text) THEN ParseThrow(ImportException)
           ELSE IF Head(text) \notin (Ch.zero..Ch.nine) \cup (Ch.a..Ch.f) \cup (Ch.A..Ch.F)
           THEN ParseThrow(ImportException)
           ELSE Goto(IF ret.i + 1 < 4 THEN "parseCharacter" ELSE "string_loop",
                     Consume(text), args, [ret EXCEPT !.i = @ + 1]))
  /\ ParseFrame

NextParse ==
  \/ CallLoad
  \/ StepLoad
  \/ StepSkipWs
  \/ StepLoadValue
  \/ StepLoadWord
  \/ StepLoadNumber
  \/ StepLoadSequence
  \/ StepLoadMap
  \/ StepParseString
  \/ StepParseCharacter

\* load runs on one thread from call to return: while it has a step to take
\* it takes one
SpecParse == InitParse /\ [][NextParse]_vars /\ WF_vars(NextParse)

Ended == pc \in {"returned", "thrown"}

(* C30: for every input text load ends, by a return or by an exception; a
   step that stays at its place in a loop, and a step that goes round the
   content loop of a sequence or of a map, takes one character from the
   stream, which is finite. *)
C30_LoadTerminates ==
  /\ <>Ended
  /\ [][(pc' = pc \/ (pc \in {"seq_after", "map_after"} /\ pc' = "skipWs"))
          => Len(text') = Len(text) - 1]_vars

\* load returned for the nested text after all of it was read
C30_Witness_NestedRead ==
  /\ pc = "returned"
  /\ prev = TextNested
  /\ text = <<>>
  /\ args = <<>>

====
